---- MODULE Spec2Model ----
(***************************************************************************)
(* A model of rust2rdf: the identifier minter (model/iri.rs), the two      *)
(* triple serializers (emitter/ntriples.rs, emitter/turtle.rs) and the     *)
(* graph walker (extraction/extractor.rs).                                 *)
(*                                                                         *)
(* Strings are sequences of Unicode code points (naturals): "a/b" is       *)
(* <<97, 47, 98>>.  The ontology addresses of model/ontology.rs, which the *)
(* walker only hands through to the sink, are sequences like any other.    *)
(***************************************************************************)
EXTENDS Integers, Sequences, FiniteSets, TLC

VARIABLES
    m1, m2,             \* IriMinter: the first and the second mint call made
    lit,                \* the serializers' literal escaping: input and outputs
    nt, tt, last, nemit, \* NTriplesEmitter, TurtleEmitter, the last call, calls counted
    crate_data,         \* the Crate the pipeline was given
    run,                \* the CrateExtractor of each of two runs of the pipeline
    iter,               \* the orders in which each run's HashMaps were iterated
    pc                  \* the statement of extract() the runs have reached

iriVars == <<m1, m2>>
escVars == <<lit>>
emitVars == <<nt, tt, last, nemit>>
extVars == <<crate_data, run, iter, pc>>
vars == <<m1, m2, lit, nt, tt, last, nemit, crate_data, run, iter, pc>>

(***************************************************************************)
(* Bounds of the model.                                                    *)
(***************************************************************************)
MaxOrdinal == 1
MaxLen == 3
MaxCalls == 3
\* the number of items the root module of a document lists
MaxItems == 2
\* the nesting of walk_module calls at which the stack is exhausted
MaxDepth == 3

(***************************************************************************)
(* String helpers.                                                         *)
(***************************************************************************)
RECURSIVE Flatten(_)
Flatten(ss) == IF ss = <<>> THEN <<>> ELSE Head(ss) \o Flatten(Tail(ss))

starts_with(s, p) == Len(p) <= Len(s) /\ SubSeq(s, 1, Len(p)) = p

ends_with(s, p) == Len(p) <= Len(s) /\ SubSeq(s, Len(s) - Len(p) + 1, Len(s)) = p

Drop(s, n) == SubSeq(s, n + 1, Len(s))

\* usize / i64 Display: the decimal digits of a natural number
RECURSIVE to_string(_)
to_string(n) == IF n < 10 THEN <<48 + n>> ELSE to_string(n \div 10) \o <<48 + (n % 10)>>

\* {:X}: one uppercase hexadecimal digit
HexDigit(d) == IF d < 10 THEN 48 + d ELSE 55 + d

\* str::as_bytes: the UTF-8 encoding of one code point
Utf8(c) ==
    IF c < 128 THEN <<c>>
    ELSE IF c < 2048 THEN <<192 + (c \div 64), 128 + (c % 64)>>
    ELSE IF c < 65536 THEN <<224 + (c \div 4096), 128 + ((c \div 64) % 64), 128 + (c % 64)>>
    ELSE <<240 + (c \div 262144), 128 + ((c \div 4096) % 64),
           128 + ((c \div 64) % 64), 128 + (c % 64)>>

(***************************************************************************)
(* model/iri.rs                                                            *)
(***************************************************************************)
\* CONTROLS (0x00..0x1F and 0x7F) plus the added ASCII delimiters
IRI_ENCODE_SET ==
    (0..31) \cup {127} \cup
    {32, 33, 34, 35, 36, 37, 38, 39, 40, 41, 42, 43, 44, 47, 58, 59, 60, 61, 62,
     63, 64, 91, 93, 94, 96, 123, 124, 125}

\* percent_encode_byte: "%XX"
percent_encode_byte(b) == <<37, HexDigit(b \div 16), HexDigit(b % 16)>>

\* utf8_percent_encode(value, set): every byte of the UTF-8 encoding that is not
\* ASCII or is in the set is percent-encoded, the others are copied
RECURSIVE percent_encode_bytes(_, _)
percent_encode_bytes(bytes, set) ==
    IF bytes = <<>> THEN <<>>
    ELSE (IF Head(bytes) >= 128 \/ Head(bytes) \in set
          THEN percent_encode_byte(Head(bytes))
          ELSE <<Head(bytes)>>) \o percent_encode_bytes(Tail(bytes), set)

RECURSIVE utf8_percent_encode(_, _)
utf8_percent_encode(value, set) ==
    IF value = <<>> THEN <<>>
    ELSE percent_encode_bytes(Utf8(Head(value)), set) \o utf8_percent_encode(Tail(value), set)

escape(value) == utf8_percent_encode(value, IRI_ENCODE_SET)

\* str::trim_end_matches('/')
RECURSIVE trim_end_slashes(_)
trim_end_slashes(s) ==
    IF s # <<>> /\ s[Len(s)] = 47 THEN trim_end_slashes(SubSeq(s, 1, Len(s) - 1)) ELSE s

\* IriMinter::new: the minter is its base_uri
IriMinter_new(base_uri) == trim_end_slashes(base_uri)

crate_iri(base, name, version) ==
    base \o <<47, 99, 114, 97, 116, 101, 47>> \o escape(name) \o <<47>> \o escape(version)

module_iri(base, crate_name, version, module_path) ==
    base \o <<47, 109, 111, 100, 117, 108, 101, 47>> \o escape(crate_name) \o <<47>>
         \o escape(version) \o <<47>> \o escape(module_path)

type_iri(base, crate_name, version, full_path) ==
    base \o <<47, 116, 121, 112, 101, 47>> \o escape(crate_name) \o <<47>>
         \o escape(version) \o <<47>> \o escape(full_path)

member_iri(owner, name, signature) ==
    IF signature = <<>>
    THEN owner \o <<47, 109, 101, 109, 98, 101, 114, 47>> \o escape(name)
    ELSE owner \o <<47, 109, 101, 109, 98, 101, 114, 47>> \o escape(name)
               \o <<40>> \o escape(signature) \o <<41>>

parameter_iri(method_iri, ordinal) ==
    method_iri \o <<47, 112, 97, 114, 97, 109, 47>> \o to_string(ordinal)

type_parameter_iri(owner_iri, ordinal) ==
    owner_iri \o <<47, 116, 121, 112, 101, 112, 97, 114, 97, 109, 47>> \o to_string(ordinal)

variant_iri(enum_iri, name) ==
    enum_iri \o <<47, 118, 97, 114, 105, 97, 110, 116, 47>> \o escape(name)

impl_iri(base, crate_name, version, impl_id) ==
    base \o <<47, 105, 109, 112, 108, 47>> \o escape(crate_name) \o <<47>>
         \o escape(version) \o <<47>> \o escape(impl_id)

\* str::strip_prefix('\'').unwrap_or(name)
strip_tick(name) == IF name # <<>> /\ name[1] = 39 THEN Tail(name) ELSE name

lifetime_iri(owner_iri, name) ==
    owner_iri \o <<47, 108, 105, 102, 101, 116, 105, 109, 101, 47>> \o escape(strip_tick(name))

primitive_type_iri(base, name) ==
    base \o <<47, 116, 121, 112, 101, 47, 95, 112, 114, 105, 109, 105, 116, 105, 118, 101, 95, 47>>
         \o escape(name)

tuple_type_iri(base, element_count) ==
    base \o <<47, 116, 121, 112, 101, 47, 95, 116, 117, 112, 108, 101, 95, 47>>
         \o to_string(element_count)

slice_type_iri(base, element_type_name) ==
    base \o <<47, 116, 121, 112, 101, 47, 95, 115, 108, 105, 99, 101, 95, 47>>
         \o escape(element_type_name)

array_type_iri(base, element_type_name, length) ==
    base \o <<47, 116, 121, 112, 101, 47, 95, 97, 114, 114, 97, 121, 95, 47>>
         \o escape(element_type_name) \o <<47>> \o escape(length)

ref_type_iri(base, target_type_name, mutable) ==
    base \o <<47, 116, 121, 112, 101, 47, 95>>
         \o (IF mutable THEN <<109, 117, 116>> ELSE <<114, 101, 102>>)
         \o <<95, 47>> \o escape(target_type_name)

raw_pointer_type_iri(base, target_type_name, mutable) ==
    base \o <<47, 116, 121, 112, 101, 47, 95, 112, 116, 114, 95>>
         \o (IF mutable THEN <<109, 117, 116>> ELSE <<99, 111, 110, 115, 116>>)
         \o <<95, 47>> \o escape(target_type_name)

(***************************************************************************)
(* The minter on its own: two mint calls on one IriMinter.                 *)
(***************************************************************************)
\* the configured base address, "http://x/" (its trailing separator is stripped)
MintBase == IriMinter_new(<<104, 116, 116, 112, 58, 47, 47, 120, 47>>)

\* free-text components: "a", "'a", "e-acute :"
Comp == {<<97>>, <<39, 97>>, <<233, 58>>}
\* library names: "a", "_array_"
CrateNames == {<<97>>, <<95, 97, 114, 114, 97, 121, 95>>}
\* owner identifiers: a type and a member of it
Owners == {type_iri(MintBase, <<97>>, <<97>>, <<97>>),
           member_iri(type_iri(MintBase, <<97>>, <<97>>, <<97>>), <<97>>, <<>>)}

NoCall == [n |-> 0, b |-> FALSE, cat |-> "none", s1 |-> <<>>, s2 |-> <<>>, s3 |-> <<>>,
           iri |-> <<>>]

Call(cat, s1, s2, s3, n, b, iri) ==
    [n |-> n, b |-> b, cat |-> cat, s1 |-> s1, s2 |-> s2, s3 |-> s3, iri |-> iri]

\* the call is the first of the scenario, or its second and last
Record(call) ==
    /\ m2.cat = "none"
    /\ IF m1.cat = "none" THEN m1' = call /\ m2' = m2 ELSE m1' = m1 /\ m2' = call
    /\ UNCHANGED <<escVars, emitVars, extVars>>

MintCrate == \E c \in CrateNames, v \in Comp :
    Record(Call("crate", c, v, <<>>, 0, FALSE, crate_iri(MintBase, c, v)))
MintModule == \E c \in CrateNames, v \in Comp, p \in Comp :
    Record(Call("module", c, v, p, 0, FALSE, module_iri(MintBase, c, v, p)))
MintType == \E c \in CrateNames, v \in Comp, p \in Comp :
    Record(Call("type", c, v, p, 0, FALSE, type_iri(MintBase, c, v, p)))
MintMember == \E o \in Owners, x \in Comp, sig \in {<<>>, <<97>>} :
    Record(Call("member", o, x, sig, 0, FALSE, member_iri(o, x, sig)))
MintParameter == \E o \in Owners, k \in 0..MaxOrdinal :
    Record(Call("parameter", o, <<>>, <<>>, k, FALSE, parameter_iri(o, k)))
MintTypeParameter == \E o \in Owners, k \in 0..MaxOrdinal :
    Record(Call("type_parameter", o, <<>>, <<>>, k, FALSE, type_parameter_iri(o, k)))
MintVariant == \E o \in Owners, x \in Comp :
    Record(Call("variant", o, x, <<>>, 0, FALSE, variant_iri(o, x)))
MintImpl == \E c \in CrateNames, v \in Comp, i \in Comp :
    Record(Call("impl", c, v, i, 0, FALSE, impl_iri(MintBase, c, v, i)))
MintLifetime == \E o \in Owners, x \in Comp \cup {<<97>>} :
    Record(Call("lifetime", o, x, <<>>, 0, FALSE, lifetime_iri(o, x)))
MintPrimitive == \E x \in Comp :
    Record(Call("primitive", x, <<>>, <<>>, 0, FALSE, primitive_type_iri(MintBase, x)))
MintTuple == \E k \in 0..MaxOrdinal :
    Record(Call("tuple", <<>>, <<>>, <<>>, k, FALSE, tuple_type_iri(MintBase, k)))
MintSlice == \E x \in Comp :
    Record(Call("slice", x, <<>>, <<>>, 0, FALSE, slice_type_iri(MintBase, x)))
MintArray == \E x \in Comp, l \in Comp :
    Record(Call("array", x, l, <<>>, 0, FALSE, array_type_iri(MintBase, x, l)))
MintRef == \E x \in Comp, mu \in BOOLEAN :
    Record(Call("reference", x, <<>>, <<>>, 0, mu, ref_type_iri(MintBase, x, mu)))
MintRawPointer == \E x \in Comp, mu \in BOOLEAN :
    Record(Call("raw_pointer", x, <<>>, <<>>, 0, mu, raw_pointer_type_iri(MintBase, x, mu)))

IdleIri == m1 = NoCall /\ m2 = NoCall

IdleEscape == lit = [nt |-> <<>>, src |-> <<>>, ttl |-> <<>>, by |-> "none"]
IdleEmit ==
    /\ nt = [out |-> <<>>, count |-> 0]
    /\ tt = [out |-> <<>>, count |-> 0, prefixes |-> <<>>, prefix_written |-> FALSE]
    /\ last = [s |-> <<>>, p |-> <<>>, v |-> <<>>, op |-> "none", dt |-> <<>>, seq |-> 0]
    /\ nemit = 0

IdleExtract == crate_data = <<>> /\ run = <<>> /\ iter = <<>> /\ pc = "idle"

InitIri == IdleIri /\ IdleEscape /\ IdleEmit /\ IdleExtract

NextIri ==
    \/ MintCrate \/ MintModule \/ MintType \/ MintMember \/ MintParameter
    \/ MintTypeParameter \/ MintVariant \/ MintImpl \/ MintLifetime \/ MintPrimitive
    \/ MintTuple \/ MintSlice \/ MintArray \/ MintRef \/ MintRawPointer

SpecIri == InitIri /\ [][NextIri]_vars

\* C3: for a fixed base address, two mint calls return the same identifier exactly
\* when they are of the same entity category and have equal components (a lifetime
\* name is taken without its leading sigil, which section 4.2 says is stripped).
SameCall(a, b) ==
    /\ a.cat = b.cat
    /\ a.s1 = b.s1
    /\ (IF a.cat = "lifetime" THEN strip_tick(a.s2) = strip_tick(b.s2) ELSE a.s2 = b.s2)
    /\ a.s3 = b.s3 /\ a.n = b.n /\ a.b = b.b

C3_MintNoCollision ==
    (m1.cat # "none" /\ m2.cat # "none") => ((m1.iri = m2.iri) <=> SameCall(m1, m2))

\* The claimed escaping of one character: a character of the fixed unsafe set
\* becomes %XX, every other character is unchanged.
ClaimUnsafeSet ==
    (0..31) \cup {127} \cup
    {32, 33, 34, 35, 36, 37, 38, 39, 40, 41, 42, 43, 44, 47, 58, 59, 60, 61, 62,
     63, 64, 91, 93, 94, 96, 123, 124, 125}

RECURSIVE ClaimEscape(_)
ClaimEscape(s) ==
    IF s = <<>> THEN <<>>
    ELSE (IF Head(s) \in ClaimUnsafeSet
          THEN <<37, HexDigit(Head(s) \div 16), HexDigit(Head(s) % 16)>>
          ELSE <<Head(s)>>) \o ClaimEscape(Tail(s))

Contains(s, part) == \E i \in 0..(Len(s) - Len(part)) : SubSeq(s, i + 1, i + Len(part)) = part

\* the free-text components of a mint call (an owner identifier is not free text)
FreeText(c) ==
    CASE c.cat \in {"crate", "array"} -> {c.s1, c.s2}
      [] c.cat \in {"module", "type", "impl"} -> {c.s1, c.s2, c.s3}
      [] c.cat = "member" -> {c.s2, c.s3}
      [] c.cat = "variant" -> {c.s2}
      [] c.cat = "lifetime" -> {strip_tick(c.s2)}
      [] c.cat \in {"primitive", "slice", "reference", "raw_pointer"} -> {c.s1}
      [] OTHER -> {}

\* C4: every free-text component of a mint call appears in the minted identifier
\* with each character of the unsafe set replaced by its %XX encoding and every other
\* character unchanged.
C4_ComponentsEscaped ==
    \A c \in {m1, m2} : \A x \in FreeText(c) : Contains(c.iri, ClaimEscape(x))

(***************************************************************************)
(* emitter/ntriples.rs                                                     *)
(***************************************************************************)
\* format!("{:04X}", c): at least four uppercase hexadecimal digits
Hex4(c) ==
    (IF c >= 65536 THEN <<HexDigit(c \div 65536)>> ELSE <<>>) \o
    <<HexDigit((c \div 4096) % 16), HexDigit((c \div 256) % 16),
      HexDigit((c \div 16) % 16), HexDigit(c % 16)>>

\* one arm of the match in NTriplesEmitter::escape_literal
NT_escape_char(c) ==
    IF c = 92 THEN <<92, 92>>
    ELSE IF c = 34 THEN <<92, 34>>
    ELSE IF c = 10 THEN <<92, 110>>
    ELSE IF c = 13 THEN <<92, 114>>
    ELSE IF c = 9 THEN <<92, 116>>
    ELSE IF c < 32 THEN <<92, 117>> \o Hex4(c)
    ELSE <<c>>

\* the mutant: the arm for the other control characters is missing
RECURSIVE NT_escape_literal_NoControlArm(_)
NT_escape_literal_NoControlArm(s) ==
    IF s = <<>> THEN <<>>
    ELSE (IF Head(s) < 32 /\ Head(s) \notin {9, 10, 13} THEN <<Head(s)>>
          ELSE NT_escape_char(Head(s))) \o NT_escape_literal_NoControlArm(Tail(s))

RECURSIVE NT_escape_literal(_)
NT_escape_literal(s) ==
    IF s = <<>> THEN <<>> ELSE NT_escape_char(Head(s)) \o NT_escape_literal(Tail(s))

XSD_BOOLEAN_TEXT ==   \* "http://www.w3.org/2001/XMLSchema#boolean"
    <<104, 116, 116, 112, 58, 47, 47, 119, 119, 119, 46, 119, 51, 46, 111, 114, 103, 47,
      50, 48, 48, 49, 47, 88, 77, 76, 83, 99, 104, 101, 109, 97, 35, 98, 111, 111, 108,
      101, 97, 110>>
XSD_INTEGER_TEXT ==   \* "http://www.w3.org/2001/XMLSchema#integer"
    <<104, 116, 116, 112, 58, 47, 47, 119, 119, 119, 46, 119, 51, 46, 111, 114, 103, 47,
      50, 48, 48, 49, 47, 88, 77, 76, 83, 99, 104, 101, 109, 97, 35, 105, 110, 116, 101,
      103, 101, 114>>

\* i64 Display
int_to_string(v) == IF v < 0 THEN <<45>> \o to_string(0 - v) ELSE to_string(v)
bool_to_str(value) == IF value THEN <<116, 114, 117, 101>> ELSE <<102, 97, 108, 115, 101>>

\* writeln!: one more line on the writer
NT_writeln(e, line) == [e EXCEPT !.out = Append(@, line)]

NT_emit_iri(e, s, p, o) ==
    [NT_writeln(e, <<60>> \o s \o <<62, 32, 60>> \o p \o <<62, 32, 60>> \o o \o <<62, 32, 46>>)
        EXCEPT !.count = @ + 1]

NT_emit_literal(e, s, p, value) ==
    [NT_writeln(e, <<60>> \o s \o <<62, 32, 60>> \o p \o <<62, 32, 34>>
                   \o NT_escape_literal(value) \o <<34, 32, 46>>)
        EXCEPT !.count = @ + 1]

NT_emit_typed_literal(e, s, p, value, datatype) ==
    [NT_writeln(e, <<60>> \o s \o <<62, 32, 60>> \o p \o <<62, 32, 34>>
                   \o NT_escape_literal(value) \o <<34, 94, 94, 60>> \o datatype \o <<62, 32, 46>>)
        EXCEPT !.count = @ + 1]

NT_emit_bool(e, s, p, value) == NT_emit_typed_literal(e, s, p, bool_to_str(value), XSD_BOOLEAN_TEXT)

NT_emit_int(e, s, p, value) == NT_emit_typed_literal(e, s, p, int_to_string(value), XSD_INTEGER_TEXT)

\* a variant in which the comment line counts as a triple
NT_add_prefix_Counting(e, prefix, iri) == [e EXCEPT !.count = @ + 1]

\* "# @prefix {prefix}: <{iri}> ."
NT_add_prefix(e, prefix, iri) ==
    NT_writeln(e, <<35, 32, 64, 112, 114, 101, 102, 105, 120, 32>> \o prefix \o <<58, 32, 60>>
                  \o iri \o <<62, 32, 46>>)

NT_flush(e) == e

NT_triple_count(e) == e.count

(***************************************************************************)
(* emitter/turtle.rs.  prefixes is the HashMap as the sequence of its      *)
(* (prefix, namespace) entries in the order the map iterates them.         *)
(***************************************************************************)
\* String's Ord: lexicographic
RECURSIVE str_less(_, _)
str_less(a, b) ==
    IF b = <<>> THEN FALSE
    ELSE IF a = <<>> THEN TRUE
    ELSE IF Head(a) # Head(b) THEN Head(a) < Head(b)
    ELSE str_less(Tail(a), Tail(b))

\* insert an entry into a sequence sorted by key, after the keys not greater
RECURSIVE insert_sorted(_, _)
insert_sorted(sorted, e) ==
    IF sorted = <<>> THEN <<e>>
    ELSE IF str_less(e[1], Head(sorted)[1]) THEN <<e>> \o sorted
    ELSE <<Head(sorted)>> \o insert_sorted(Tail(sorted), e)

\* the mutant: the entries are written in the map's iteration order
sort_by_key_Unsorted(entries) == entries

\* Vec::sort_by_key(|(k, _)| k.clone()): a stable sort by prefix name
RECURSIVE sort_by_key(_)
sort_by_key(entries) ==
    IF entries = <<>> THEN <<>>
    ELSE insert_sorted(sort_by_key(SubSeq(entries, 1, Len(entries) - 1)), entries[Len(entries)])

\* "@prefix {prefix}: <{iri}> ."
prefix_line(e) ==
    <<64, 112, 114, 101, 102, 105, 120, 32>> \o e[1] \o <<58, 32, 60>> \o e[2] \o <<62, 32, 46>>

write_prefixes(t) ==
    IF t.prefix_written THEN t
    ELSE [t EXCEPT !.prefix_written = TRUE,
                   !.out = @ \o [i \in 1..Len(t.prefixes) |-> prefix_line(sort_by_key(t.prefixes)[i])]
                             \o (IF t.prefixes # <<>> THEN <<(<<>>)>> ELSE <<>>)]

\* char::is_alphanumeric (Alphabetic or Numeric), for the code points below 256
is_alphanumeric(c) ==
    \/ c \in 48..57 \/ c \in 65..90 \/ c \in 97..122
    \/ c \in {170, 178, 179, 181, 185, 186, 188, 189, 190}
    \/ c \in 192..214 \/ c \in 216..246 \/ c \in 248..255

\* the mutant: the first matching namespace wins, whatever its length
RECURSIVE best_prefix_FirstMatch(_, _, _)
best_prefix_FirstMatch(entries, iri, best) ==
    IF entries = <<>> THEN best
    ELSE best_prefix_FirstMatch(Tail(entries), iri,
            IF starts_with(iri, Head(entries)[2]) /\ best = <<>> THEN <<Head(entries)>> ELSE best)

\* the loop of compact_iri: best is <<>> (None) or <<entry>> (Some)
RECURSIVE best_prefix(_, _, _)
best_prefix(entries, iri, best) ==
    IF entries = <<>> THEN best
    ELSE best_prefix(Tail(entries), iri,
            IF /\ starts_with(iri, Head(entries)[2])
               /\ (best = <<>> \/ Len(Head(entries)[2]) > Len(best[1][2]))
            THEN <<Head(entries)>> ELSE best)

compact_iri(t, iri) ==
    LET best == best_prefix(t.prefixes, iri, <<>>) IN
    IF best # <<>> /\ LET local == Drop(iri, Len(best[1][2])) IN
                      /\ local # <<>>
                      /\ \A i \in 1..Len(local) : is_alphanumeric(local[i]) \/ local[i] = 95
    THEN best[1][1] \o <<58>> \o Drop(iri, Len(best[1][2]))
    ELSE <<60>> \o iri \o <<62>>

\* one arm of the match in TurtleEmitter::escape_literal
Turtle_escape_char(c) ==
    IF c = 92 THEN <<92, 92>>
    ELSE IF c = 34 THEN <<92, 34>>
    ELSE IF c = 10 THEN <<92, 110>>
    ELSE IF c = 13 THEN <<92, 114>>
    ELSE IF c = 9 THEN <<92, 116>>
    ELSE <<c>>

RECURSIVE Turtle_escape_literal(_)
Turtle_escape_literal(s) ==
    IF s = <<>> THEN <<>> ELSE Turtle_escape_char(Head(s)) \o Turtle_escape_literal(Tail(s))

Turtle_writeln(t, line) == [t EXCEPT !.out = Append(@, line)]

Turtle_emit_iri(t0, s, p, o) ==
    LET t == write_prefixes(t0) IN
    [Turtle_writeln(t, compact_iri(t, s) \o <<32>> \o compact_iri(t, p) \o <<32>>
                       \o compact_iri(t, o) \o <<32, 46>>)
        EXCEPT !.count = @ + 1]

Turtle_emit_literal(t0, s, p, value) ==
    LET t == write_prefixes(t0) IN
    [Turtle_writeln(t, compact_iri(t, s) \o <<32>> \o compact_iri(t, p) \o <<32, 34>>
                       \o Turtle_escape_literal(value) \o <<34, 32, 46>>)
        EXCEPT !.count = @ + 1]

Turtle_emit_typed_literal(t0, s, p, value, datatype) ==
    LET t == write_prefixes(t0) IN
    [Turtle_writeln(t, compact_iri(t, s) \o <<32>> \o compact_iri(t, p) \o <<32, 34>>
                       \o Turtle_escape_literal(value) \o <<34, 94, 94>>
                       \o compact_iri(t, datatype) \o <<32, 46>>)
        EXCEPT !.count = @ + 1]

Turtle_emit_bool(t, s, p, value) ==
    Turtle_emit_typed_literal(t, s, p, bool_to_str(value), XSD_BOOLEAN_TEXT)

Turtle_emit_int(t, s, p, value) ==
    Turtle_emit_typed_literal(t, s, p, int_to_string(value), XSD_INTEGER_TEXT)

\* the orders in which a map holding these entries may iterate them
Orders(entries) ==
    {f \in [1..Cardinality(entries) -> entries] : \A i, j \in 1..Cardinality(entries) : f[i] = f[j] => i = j}

Keys(prefixes) == {prefixes[i][1] : i \in 1..Len(prefixes)}

\* HashMap::insert: the value of a key already present is replaced where it is; a new
\* key is placed by its hash, and a resize may move every entry
Turtle_add_prefix_results(t, prefix, iri) ==
    IF prefix \in Keys(t.prefixes)
    THEN {[t EXCEPT !.prefixes = [i \in 1..Len(t.prefixes) |->
                        IF t.prefixes[i][1] = prefix THEN <<prefix, iri>> ELSE t.prefixes[i]]]}
    ELSE {[t EXCEPT !.prefixes = f] :
            f \in Orders({t.prefixes[i] : i \in 1..Len(t.prefixes)} \cup {<<prefix, iri>>})}

Turtle_flush(t) == t

Turtle_triple_count(t) == t.count

(***************************************************************************)
(* Literal escaping on its own: one literal value handed to each           *)
(* serializer's escape_literal.                                            *)
(***************************************************************************)
\* backslash, quote, LF, CR, TAB, U+0001, U+001F, 'n', e-acute
LitChars == {92, 34, 10, 13, 9, 1, 31, 110, 127, 233}

LitStrings == UNION {[1..n -> LitChars] : n \in 0..MaxLen}

EscapeNT == \E s \in LitStrings :
    /\ lit.by = "none"
    /\ lit' = [lit EXCEPT !.src = s, !.nt = NT_escape_literal(s), !.by = "nt"]
    /\ UNCHANGED <<iriVars, emitVars, extVars>>

EscapeTurtle == \E s \in LitStrings :
    /\ lit.by = "none"
    /\ lit' = [lit EXCEPT !.src = s, !.ttl = Turtle_escape_literal(s), !.by = "turtle"]
    /\ UNCHANGED <<iriVars, emitVars, extVars>>

InitEscape == IdleIri /\ IdleEscape /\ IdleEmit /\ IdleExtract

NextEscape == EscapeNT \/ EscapeTurtle

SpecEscape == InitEscape /\ [][NextEscape]_vars

\* The claimed table, character by character.
ClaimNTChar(c) ==
    CASE c = 92 -> <<92, 92>>
      [] c = 34 -> <<92, 34>>
      [] c = 10 -> <<92, 110>>
      [] c = 13 -> <<92, 114>>
      [] c = 9 -> <<92, 116>>
      [] c < 32 /\ c \notin {9, 10, 13} ->
            <<92, 117, 48, 48, HexDigit(c \div 16), HexDigit(c % 16)>>
      [] OTHER -> <<c>>

IsUpperHex(c) == c \in 48..57 \/ c \in 65..70

\* A scan of an escaped literal: every backslash starts one of the escape
\* sequences, and outside them there is no double quote and no character below 0x20.
RECURSIVE NTWellEscaped(_)
NTWellEscaped(s) ==
    IF s = <<>> THEN TRUE
    ELSE IF s[1] = 92
         THEN /\ Len(s) >= 2
              /\ IF s[2] \in {92, 34, 110, 114, 116} THEN NTWellEscaped(Drop(s, 2))
                 ELSE /\ s[2] = 117 /\ Len(s) >= 6
                      /\ \A i \in 3..6 : IsUpperHex(s[i])
                      /\ NTWellEscaped(Drop(s, 6))
         ELSE s[1] # 34 /\ s[1] >= 32 /\ NTWellEscaped(Tail(s))

\* C5: NTriplesEmitter::escape_literal maps a literal character by character by the
\* table (two-character escapes for backslash, quote, LF, CR, TAB; \uXXXX for any
\* other character below 0x20; every other character, DEL and non-ASCII included,
\* unchanged), so the result has no raw double quote, no raw control character
\* below 0x20, and every backslash in it starts an escape sequence.
C5_NTEscape ==
    lit.by = "nt" =>
        /\ lit.nt = Flatten([i \in 1..Len(lit.src) |-> ClaimNTChar(lit.src[i])])
        /\ NTWellEscaped(lit.nt)

\* a literal with a backslash, a quote and a control character has been escaped
C5_Witness ==
    /\ lit.by = "nt"
    /\ {92, 34, 1} \subseteq {lit.src[i] : i \in 1..Len(lit.src)}
    /\ Len(lit.nt) = 10

(***************************************************************************)
(* The serializers on their own: one sequence of TriplesEmitter calls,     *)
(* made on an NTriplesEmitter and on a TurtleEmitter.                      *)
(***************************************************************************)
\* addresses: "x/y/F", "x/y/a.b", "x/y/", "x/_<e-acute>1", "q"
EmitIris == {<<120, 47, 121, 47, 70>>, <<120, 47, 121, 47, 97, 46, 98>>, <<120, 47, 121, 47>>,
             <<120, 47, 95, 233, 49>>, <<113>>}
EmitPredicate == <<120, 47, 112>>                 \* "x/p"
EmitSubject == <<120, 47, 121, 47, 70>>           \* "x/y/F"
EmitObjects == {<<120, 47, 121, 47, 70>>, <<113>>}  \* "x/y/F", "q"
EmitValues == {<<97, 34>>, <<1, 10>>}              \* a" and U+0001 LF
\* registrations: x -> "x/", y -> "x/y/", a -> "x/", x -> "x/y/"
EmitPrefixes == {<<(<<120>>), <<120, 47>>>>, <<(<<121>>), <<120, 47, 121, 47>>>>,
                 <<(<<97>>), <<120, 47>>>>, <<(<<120>>), <<120, 47, 121, 47>>>>}

EmitOps == {"emit_iri", "emit_literal", "emit_typed_literal", "emit_bool", "emit_int"}

Called(op, s, p, v, dt) == [s |-> s, p |-> p, v |-> v, op |-> op, dt |-> dt, seq |-> last.seq + 1]

EmitIri == \E s \in EmitIris, o \in EmitObjects :
    /\ last.seq < MaxCalls
    /\ nt' = NT_emit_iri(nt, s, EmitPredicate, o)
    /\ tt' = Turtle_emit_iri(tt, s, EmitPredicate, o)
    /\ last' = Called("emit_iri", s, EmitPredicate, o, <<>>)
    /\ nemit' = nemit + 1
    /\ UNCHANGED <<iriVars, escVars, extVars>>

EmitLiteral == \E s \in EmitObjects, v \in EmitValues :
    /\ last.seq < MaxCalls
    /\ nt' = NT_emit_literal(nt, s, EmitPredicate, v)
    /\ tt' = Turtle_emit_literal(tt, s, EmitPredicate, v)
    /\ last' = Called("emit_literal", s, EmitPredicate, v, <<>>)
    /\ nemit' = nemit + 1
    /\ UNCHANGED <<iriVars, escVars, extVars>>

EmitTypedLiteral == \E s \in {EmitSubject}, v \in EmitValues, dt \in EmitObjects :
    /\ last.seq < MaxCalls
    /\ nt' = NT_emit_typed_literal(nt, s, EmitPredicate, v, dt)
    /\ tt' = Turtle_emit_typed_literal(tt, s, EmitPredicate, v, dt)
    /\ last' = Called("emit_typed_literal", s, EmitPredicate, v, dt)
    /\ nemit' = nemit + 1
    /\ UNCHANGED <<iriVars, escVars, extVars>>

EmitBool == \E s \in {EmitSubject}, value \in BOOLEAN :
    /\ last.seq < MaxCalls
    /\ nt' = NT_emit_bool(nt, s, EmitPredicate, value)
    /\ tt' = Turtle_emit_bool(tt, s, EmitPredicate, value)
    /\ last' = Called("emit_bool", s, EmitPredicate, bool_to_str(value), XSD_BOOLEAN_TEXT)
    /\ nemit' = nemit + 1
    /\ UNCHANGED <<iriVars, escVars, extVars>>

EmitInt == \E s \in {EmitSubject}, value \in {0 - 1, 10} :
    /\ last.seq < MaxCalls
    /\ nt' = NT_emit_int(nt, s, EmitPredicate, value)
    /\ tt' = Turtle_emit_int(tt, s, EmitPredicate, value)
    /\ last' = Called("emit_int", s, EmitPredicate, int_to_string(value), XSD_INTEGER_TEXT)
    /\ nemit' = nemit + 1
    /\ UNCHANGED <<iriVars, escVars, extVars>>

AddPrefix == \E e \in EmitPrefixes : \E t \in Turtle_add_prefix_results(tt, e[1], e[2]) :
    /\ last.seq < MaxCalls
    /\ nt' = NT_add_prefix(nt, e[1], e[2])
    /\ tt' = t
    /\ last' = Called("add_prefix", e[1], <<>>, e[2], <<>>)
    /\ UNCHANGED <<nemit, iriVars, escVars, extVars>>

Flush ==
    /\ last.seq < MaxCalls
    /\ nt' = NT_flush(nt)
    /\ tt' = Turtle_flush(tt)
    /\ last' = Called("flush", <<>>, <<>>, <<>>, <<>>)
    /\ UNCHANGED <<nemit, iriVars, escVars, extVars>>

InitEmit == IdleIri /\ IdleEscape /\ IdleEmit /\ IdleExtract

NextEmit ==
    \/ EmitIri \/ EmitLiteral \/ EmitTypedLiteral \/ EmitBool \/ EmitInt \/ AddPrefix \/ Flush

SpecEmit == InitEmit /\ [][NextEmit]_vars

\* C6: after any sequence of calls, each emitter's triple_count is the number of
\* emit_iri, emit_literal, emit_typed_literal, emit_bool and emit_int calls made so
\* far; add_prefix and flush do not count, and the two emitters agree.
C6_CountIsEmitCalls ==
    /\ NT_triple_count(nt) = nemit
    /\ Turtle_triple_count(tt) = nemit

\* two triples were emitted, then a prefix was registered
C6_Witness == nemit = 2 /\ last.op = "add_prefix" /\ last.seq = 3 /\ nt.count = 2 /\ tt.count = 2

ClaimPrefixLine(name, ns) ==
    <<64, 112, 114, 101, 102, 105, 120, 32>> \o name \o <<58, 32, 60>> \o ns \o <<62, 32, 46>>

IsPrefixLine(line) == starts_with(line, <<64, 112, 114, 101, 102, 105, 120, 32>>)

\* strict lexicographic order of code-point sequences, stated without recursion
LexBefore(a, b) ==
    \E k \in 0..Len(a) :
        /\ k <= Len(b)
        /\ SubSeq(a, 1, k) = SubSeq(b, 1, k)
        /\ IF k = Len(a) THEN k < Len(b) ELSE k < Len(b) /\ a[k + 1] < b[k + 1]

\* what one call appends to the Turtle output
C7_Step ==
    LET new == SubSeq(tt'.out, Len(tt.out) + 1, Len(tt'.out))
        registered == {tt.prefixes[i] : i \in 1..Len(tt.prefixes)}
    IN
    /\ Len(tt'.out) >= Len(tt.out)
    /\ SubSeq(tt'.out, 1, Len(tt.out)) = tt.out
    /\ IF last'.op \in EmitOps
       THEN /\ tt'.prefix_written
            /\ IF ~tt.prefix_written
               THEN \E f \in Orders(registered) :
                        /\ \A i \in 1..(Len(f) - 1) : LexBefore(f[i][1], f[i + 1][1])
                        /\ Len(new) = Len(f) + (IF registered = {} THEN 0 ELSE 1) + 1
                        /\ \A i \in 1..Len(f) : new[i] = ClaimPrefixLine(f[i][1], f[i][2])
                        /\ registered # {} => new[Len(f) + 1] = <<>>
                        /\ ~IsPrefixLine(new[Len(new)])
               ELSE Len(new) = 1 /\ ~IsPrefixLine(new[1])
       ELSE new = <<>> /\ tt'.prefix_written = tt.prefix_written

\* C7: TurtleEmitter writes the prefix block exactly once, immediately before the
\* first triple: one @prefix line per prefix registered so far, in strictly ascending
\* order of prefix name whatever the registration order, then one blank line iff a
\* prefix was registered; no later call writes the block again.
C7_PrefixBlockOnce == [][C7_Step]_vars

\* the first triple was written after two prefixes that the map iterates in
\* descending order
C7_Witness ==
    /\ tt.count = 1 /\ Len(tt.prefixes) = 2 /\ Len(tt.out) = 4
    /\ LexBefore(tt.prefixes[2][1], tt.prefixes[1][1])
    /\ last.op = "emit_iri"

\* letters, digits or underscore (below U+0100)
ClaimIdentChar(c) ==
    \/ c = 95 \/ c \in 48..57 \/ c \in 65..90 \/ c \in 97..122
    \/ c \in {170, 181, 186} \/ c \in 192..214 \/ c \in 216..246 \/ c \in 248..255

\* the renderings of an address that the claim allows
ClaimCompact(prefixes, iri) ==
    LET M == {e \in {prefixes[i] : i \in 1..Len(prefixes)} : starts_with(iri, e[2])} IN
    IF M = {} THEN {<<60>> \o iri \o <<62>>}
    ELSE LET longest == CHOOSE n \in {Len(e[2]) : e \in M} : \A e \in M : Len(e[2]) <= n
             local == Drop(iri, longest)
         IN IF local # <<>> /\ \A i \in 1..Len(local) : ClaimIdentChar(local[i])
            THEN {e[1] \o <<58>> \o local : e \in {x \in M : Len(x[2]) = longest}}
            ELSE {<<60>> \o iri \o <<62>>}

Code ==
    LET Ascii == " ! #$%&'()*+,-./0123456789:;<=>?@ABCDEFGHIJKLMNOPQRSTUVWXYZ[ ]^_ abcdefghijklmnopqrstuvwxyz{|}~"
    IN [c \in {SubSeq(Ascii, k, k) : k \in 1..Len(Ascii)} |->
           31 + CHOOSE k \in 1..Len(Ascii) :
                    SubSeq(Ascii, k, k) = c /\ \A j \in 1..(k - 1) : SubSeq(Ascii, j, j) # c]

str(s) ==
    LET f[i \in 0..Len(s)] == IF i = 0 THEN <<>> ELSE Append(f[i - 1], Code[SubSeq(s, i, i)])
    IN f[Len(s)]

(***************************************************************************)
(* model/ontology.rs: the addresses the walker uses, one record for each   *)
(* of the modules standard, tg and rt: tg.NAME is tg::NAME.  MODULE, UNION *)
(* and CONSTANT are written with a trailing underscore.                    *)
(***************************************************************************)
standard ==
    [\* "http://www.w3.org/1999/02/22-rdf-syntax-ns#"
     RDF |->
         <<104, 116, 116, 112, 58, 47, 47, 119, 119, 119, 46, 119, 51, 46, 111,
           114, 103, 47, 49, 57, 57, 57, 47, 48, 50, 47, 50, 50, 45, 114, 100,
           102, 45, 115, 121, 110, 116, 97, 120, 45, 110, 115, 35>>,
     \* "http://www.w3.org/2000/01/rdf-schema#"
     RDFS |->
         <<104, 116, 116, 112, 58, 47, 47, 119, 119, 119, 46, 119, 51, 46, 111,
           114, 103, 47, 50, 48, 48, 48, 47, 48, 49, 47, 114, 100, 102, 45,
           115, 99, 104, 101, 109, 97, 35>>,
     \* "http://www.w3.org/2001/XMLSchema#"
     XSD |->
         <<104, 116, 116, 112, 58, 47, 47, 119, 119, 119, 46, 119, 51, 46, 111,
           114, 103, 47, 50, 48, 48, 49, 47, 88, 77, 76, 83, 99, 104, 101, 109,
           97, 35>>,
     \* "http://www.w3.org/1999/02/22-rdf-syntax-ns#type"
     RDF_TYPE |->
         <<104, 116, 116, 112, 58, 47, 47, 119, 119, 119, 46, 119, 51, 46, 111,
           114, 103, 47, 49, 57, 57, 57, 47, 48, 50, 47, 50, 50, 45, 114, 100,
           102, 45, 115, 121, 110, 116, 97, 120, 45, 110, 115, 35, 116, 121,
           112, 101>>]

tg ==
    [\* "tg"
     PREFIX |->
         <<116, 103>>,
     \* "http://typegraph.example/ontology/"
     NS |->
         <<104, 116, 116, 112, 58, 47, 47, 116, 121, 112, 101, 103, 114, 97,
           112, 104, 46, 101, 120, 97, 109, 112, 108, 101, 47, 111, 110, 116,
           111, 108, 111, 103, 121, 47>>,
     \* "http://typegraph.example/ontology/Assembly"
     ASSEMBLY |->
         <<104, 116, 116, 112, 58, 47, 47, 116, 121, 112, 101, 103, 114, 97,
           112, 104, 46, 101, 120, 97, 109, 112, 108, 101, 47, 111, 110, 116,
           111, 108, 111, 103, 121, 47, 65, 115, 115, 101, 109, 98, 108, 121>>,
     \* "http://typegraph.example/ontology/Namespace"
     NAMESPACE |->
         <<104, 116, 116, 112, 58, 47, 47, 116, 121, 112, 101, 103, 114, 97,
           112, 104, 46, 101, 120, 97, 109, 112, 108, 101, 47, 111, 110, 116,
           111, 108, 111, 103, 121, 47, 78, 97, 109, 101, 115, 112, 97, 99, 101>>,
     \* "http://typegraph.example/ontology/Type"
     TYPE |->
         <<104, 116, 116, 112, 58, 47, 47, 116, 121, 112, 101, 103, 114, 97,
           112, 104, 46, 101, 120, 97, 109, 112, 108, 101, 47, 111, 110, 116,
           111, 108, 111, 103, 121, 47, 84, 121, 112, 101>>,
     \* "http://typegraph.example/ontology/Struct"
     STRUCT |->
         <<104, 116, 116, 112, 58, 47, 47, 116, 121, 112, 101, 103, 114, 97,
           112, 104, 46, 101, 120, 97, 109, 112, 108, 101, 47, 111, 110, 116,
           111, 108, 111, 103, 121, 47, 83, 116, 114, 117, 99, 116>>,
     \* "http://typegraph.example/ontology/Interface"
     INTERFACE |->
         <<104, 116, 116, 112, 58, 47, 47, 116, 121, 112, 101, 103, 114, 97,
           112, 104, 46, 101, 120, 97, 109, 112, 108, 101, 47, 111, 110, 116,
           111, 108, 111, 103, 121, 47, 73, 110, 116, 101, 114, 102, 97, 99,
           101>>,
     \* "http://typegraph.example/ontology/Enum"
     ENUM |->
         <<104, 116, 116, 112, 58, 47, 47, 116, 121, 112, 101, 103, 114, 97,
           112, 104, 46, 101, 120, 97, 109, 112, 108, 101, 47, 111, 110, 116,
           111, 108, 111, 103, 121, 47, 69, 110, 117, 109>>,
     \* "http://typegraph.example/ontology/Member"
     MEMBER |->
         <<104, 116, 116, 112, 58, 47, 47, 116, 121, 112, 101, 103, 114, 97,
           112, 104, 46, 101, 120, 97, 109, 112, 108, 101, 47, 111, 110, 116,
           111, 108, 111, 103, 121, 47, 77, 101, 109, 98, 101, 114>>,
     \* "http://typegraph.example/ontology/Method"
     METHOD |->
         <<104, 116, 116, 112, 58, 47, 47, 116, 121, 112, 101, 103, 114, 97,
           112, 104, 46, 101, 120, 97, 109, 112, 108, 101, 47, 111, 110, 116,
           111, 108, 111, 103, 121, 47, 77, 101, 116, 104, 111, 100>>,
     \* "http://typegraph.example/ontology/Field"
     FIELD |->
         <<104, 116, 116, 112, 58, 47, 47, 116, 121, 112, 101, 103, 114, 97,
           112, 104, 46, 101, 120, 97, 109, 112, 108, 101, 47, 111, 110, 116,
           111, 108, 111, 103, 121, 47, 70, 105, 101, 108, 100>>,
     \* "http://typegraph.example/ontology/Parameter"
     PARAMETER |->
         <<104, 116, 116, 112, 58, 47, 47, 116, 121, 112, 101, 103, 114, 97,
           112, 104, 46, 101, 120, 97, 109, 112, 108, 101, 47, 111, 110, 116,
           111, 108, 111, 103, 121, 47, 80, 97, 114, 97, 109, 101, 116, 101,
           114>>,
     \* "http://typegraph.example/ontology/TypeParameter"
     TYPE_PARAMETER |->
         <<104, 116, 116, 112, 58, 47, 47, 116, 121, 112, 101, 103, 114, 97,
           112, 104, 46, 101, 120, 97, 109, 112, 108, 101, 47, 111, 110, 116,
           111, 108, 111, 103, 121, 47, 84, 121, 112, 101, 80, 97, 114, 97,
           109, 101, 116, 101, 114>>,
     \* "http://typegraph.example/ontology/name"
     NAME |->
         <<104, 116, 116, 112, 58, 47, 47, 116, 121, 112, 101, 103, 114, 97,
           112, 104, 46, 101, 120, 97, 109, 112, 108, 101, 47, 111, 110, 116,
           111, 108, 111, 103, 121, 47, 110, 97, 109, 101>>,
     \* "http://typegraph.example/ontology/fullName"
     FULL_NAME |->
         <<104, 116, 116, 112, 58, 47, 47, 116, 121, 112, 101, 103, 114, 97,
           112, 104, 46, 101, 120, 97, 109, 112, 108, 101, 47, 111, 110, 116,
           111, 108, 111, 103, 121, 47, 102, 117, 108, 108, 78, 97, 109, 101>>,
     \* "http://typegraph.example/ontology/accessibility"
     ACCESSIBILITY |->
         <<104, 116, 116, 112, 58, 47, 47, 116, 121, 112, 101, 103, 114, 97,
           112, 104, 46, 101, 120, 97, 109, 112, 108, 101, 47, 111, 110, 116,
           111, 108, 111, 103, 121, 47, 97, 99, 99, 101, 115, 115, 105, 98,
           105, 108, 105, 116, 121>>,
     \* "http://typegraph.example/ontology/isAbstract"
     IS_ABSTRACT |->
         <<104, 116, 116, 112, 58, 47, 47, 116, 121, 112, 101, 103, 114, 97,
           112, 104, 46, 101, 120, 97, 109, 112, 108, 101, 47, 111, 110, 116,
           111, 108, 111, 103, 121, 47, 105, 115, 65, 98, 115, 116, 114, 97,
           99, 116>>,
     \* "http://typegraph.example/ontology/isGeneric"
     IS_GENERIC |->
         <<104, 116, 116, 112, 58, 47, 47, 116, 121, 112, 101, 103, 114, 97,
           112, 104, 46, 101, 120, 97, 109, 112, 108, 101, 47, 111, 110, 116,
           111, 108, 111, 103, 121, 47, 105, 115, 71, 101, 110, 101, 114, 105,
           99>>,
     \* "http://typegraph.example/ontology/definedInAssembly"
     DEFINED_IN_ASSEMBLY |->
         <<104, 116, 116, 112, 58, 47, 47, 116, 121, 112, 101, 103, 114, 97,
           112, 104, 46, 101, 120, 97, 109, 112, 108, 101, 47, 111, 110, 116,
           111, 108, 111, 103, 121, 47, 100, 101, 102, 105, 110, 101, 100, 73,
           110, 65, 115, 115, 101, 109, 98, 108, 121>>,
     \* "http://typegraph.example/ontology/inNamespace"
     IN_NAMESPACE |->
         <<104, 116, 116, 112, 58, 47, 47, 116, 121, 112, 101, 103, 114, 97,
           112, 104, 46, 101, 120, 97, 109, 112, 108, 101, 47, 111, 110, 116,
           111, 108, 111, 103, 121, 47, 105, 110, 78, 97, 109, 101, 115, 112,
           97, 99, 101>>,
     \* "http://typegraph.example/ontology/implements"
     IMPLEMENTS |->
         <<104, 116, 116, 112, 58, 47, 47, 116, 121, 112, 101, 103, 114, 97,
           112, 104, 46, 101, 120, 97, 109, 112, 108, 101, 47, 111, 110, 116,
           111, 108, 111, 103, 121, 47, 105, 109, 112, 108, 101, 109, 101, 110,
           116, 115>>,
     \* "http://typegraph.example/ontology/hasMember"
     HAS_MEMBER |->
         <<104, 116, 116, 112, 58, 47, 47, 116, 121, 112, 101, 103, 114, 97,
           112, 104, 46, 101, 120, 97, 109, 112, 108, 101, 47, 111, 110, 116,
           111, 108, 111, 103, 121, 47, 104, 97, 115, 77, 101, 109, 98, 101,
           114>>,
     \* "http://typegraph.example/ontology/hasTypeParameter"
     HAS_TYPE_PARAMETER |->
         <<104, 116, 116, 112, 58, 47, 47, 116, 121, 112, 101, 103, 114, 97,
           112, 104, 46, 101, 120, 97, 109, 112, 108, 101, 47, 111, 110, 116,
           111, 108, 111, 103, 121, 47, 104, 97, 115, 84, 121, 112, 101, 80,
           97, 114, 97, 109, 101, 116, 101, 114>>,
     \* "http://typegraph.example/ontology/relatedTo"
     RELATED_TO |->
         <<104, 116, 116, 112, 58, 47, 47, 116, 121, 112, 101, 103, 114, 97,
           112, 104, 46, 101, 120, 97, 109, 112, 108, 101, 47, 111, 110, 116,
           111, 108, 111, 103, 121, 47, 114, 101, 108, 97, 116, 101, 100, 84,
           111>>,
     \* "http://typegraph.example/ontology/isAsync"
     IS_ASYNC |->
         <<104, 116, 116, 112, 58, 47, 47, 116, 121, 112, 101, 103, 114, 97,
           112, 104, 46, 101, 120, 97, 109, 112, 108, 101, 47, 111, 110, 116,
           111, 108, 111, 103, 121, 47, 105, 115, 65, 115, 121, 110, 99>>,
     \* "http://typegraph.example/ontology/isConst"
     IS_CONST |->
         <<104, 116, 116, 112, 58, 47, 47, 116, 121, 112, 101, 103, 114, 97,
           112, 104, 46, 101, 120, 97, 109, 112, 108, 101, 47, 111, 110, 116,
           111, 108, 111, 103, 121, 47, 105, 115, 67, 111, 110, 115, 116>>,
     \* "http://typegraph.example/ontology/memberOf"
     MEMBER_OF |->
         <<104, 116, 116, 112, 58, 47, 47, 116, 121, 112, 101, 103, 114, 97,
           112, 104, 46, 101, 120, 97, 109, 112, 108, 101, 47, 111, 110, 116,
           111, 108, 111, 103, 121, 47, 109, 101, 109, 98, 101, 114, 79, 102>>,
     \* "http://typegraph.example/ontology/returnType"
     RETURN_TYPE |->
         <<104, 116, 116, 112, 58, 47, 47, 116, 121, 112, 101, 103, 114, 97,
           112, 104, 46, 101, 120, 97, 109, 112, 108, 101, 47, 111, 110, 116,
           111, 108, 111, 103, 121, 47, 114, 101, 116, 117, 114, 110, 84, 121,
           112, 101>>,
     \* "http://typegraph.example/ontology/fieldType"
     FIELD_TYPE |->
         <<104, 116, 116, 112, 58, 47, 47, 116, 121, 112, 101, 103, 114, 97,
           112, 104, 46, 101, 120, 97, 109, 112, 108, 101, 47, 111, 110, 116,
           111, 108, 111, 103, 121, 47, 102, 105, 101, 108, 100, 84, 121, 112,
           101>>,
     \* "http://typegraph.example/ontology/hasParameter"
     HAS_PARAMETER |->
         <<104, 116, 116, 112, 58, 47, 47, 116, 121, 112, 101, 103, 114, 97,
           112, 104, 46, 101, 120, 97, 109, 112, 108, 101, 47, 111, 110, 116,
           111, 108, 111, 103, 121, 47, 104, 97, 115, 80, 97, 114, 97, 109,
           101, 116, 101, 114>>,
     \* "http://typegraph.example/ontology/ordinal"
     ORDINAL |->
         <<104, 116, 116, 112, 58, 47, 47, 116, 121, 112, 101, 103, 114, 97,
           112, 104, 46, 101, 120, 97, 109, 112, 108, 101, 47, 111, 110, 116,
           111, 108, 111, 103, 121, 47, 111, 114, 100, 105, 110, 97, 108>>,
     \* "http://typegraph.example/ontology/parameterType"
     PARAMETER_TYPE |->
         <<104, 116, 116, 112, 58, 47, 47, 116, 121, 112, 101, 103, 114, 97,
           112, 104, 46, 101, 120, 97, 109, 112, 108, 101, 47, 111, 110, 116,
           111, 108, 111, 103, 121, 47, 112, 97, 114, 97, 109, 101, 116, 101,
           114, 84, 121, 112, 101>>,
     \* "http://typegraph.example/ontology/parameterOf"
     PARAMETER_OF |->
         <<104, 116, 116, 112, 58, 47, 47, 116, 121, 112, 101, 103, 114, 97,
           112, 104, 46, 101, 120, 97, 109, 112, 108, 101, 47, 111, 110, 116,
           111, 108, 111, 103, 121, 47, 112, 97, 114, 97, 109, 101, 116, 101,
           114, 79, 102>>,
     \* "http://typegraph.example/ontology/typeParameterOf"
     TYPE_PARAMETER_OF |->
         <<104, 116, 116, 112, 58, 47, 47, 116, 121, 112, 101, 103, 114, 97,
           112, 104, 46, 101, 120, 97, 109, 112, 108, 101, 47, 111, 110, 116,
           111, 108, 111, 103, 121, 47, 116, 121, 112, 101, 80, 97, 114, 97,
           109, 101, 116, 101, 114, 79, 102>>,
     \* "http://typegraph.example/ontology/version"
     VERSION |->
         <<104, 116, 116, 112, 58, 47, 47, 116, 121, 112, 101, 103, 114, 97,
           112, 104, 46, 101, 120, 97, 109, 112, 108, 101, 47, 111, 110, 116,
           111, 108, 111, 103, 121, 47, 118, 101, 114, 115, 105, 111, 110>>,
     \* "http://typegraph.example/ontology/parentNamespace"
     PARENT_NAMESPACE |->
         <<104, 116, 116, 112, 58, 47, 47, 116, 121, 112, 101, 103, 114, 97,
           112, 104, 46, 101, 120, 97, 109, 112, 108, 101, 47, 111, 110, 116,
           111, 108, 111, 103, 121, 47, 112, 97, 114, 101, 110, 116, 78, 97,
           109, 101, 115, 112, 97, 99, 101>>,
     \* "http://typegraph.example/ontology/language"
     LANGUAGE |->
         <<104, 116, 116, 112, 58, 47, 47, 116, 121, 112, 101, 103, 114, 97,
           112, 104, 46, 101, 120, 97, 109, 112, 108, 101, 47, 111, 110, 116,
           111, 108, 111, 103, 121, 47, 108, 97, 110, 103, 117, 97, 103, 101>>]

rt ==
    [\* "rt"
     PREFIX |->
         <<114, 116>>,
     \* "http://rust.example/ontology/"
     NS |->
         <<104, 116, 116, 112, 58, 47, 47, 114, 117, 115, 116, 46, 101, 120,
           97, 109, 112, 108, 101, 47, 111, 110, 116, 111, 108, 111, 103, 121,
           47>>,
     \* "http://rust.example/ontology/Crate"
     CRATE |->
         <<104, 116, 116, 112, 58, 47, 47, 114, 117, 115, 116, 46, 101, 120,
           97, 109, 112, 108, 101, 47, 111, 110, 116, 111, 108, 111, 103, 121,
           47, 67, 114, 97, 116, 101>>,
     \* "http://rust.example/ontology/Module"
     MODULE_ |->
         <<104, 116, 116, 112, 58, 47, 47, 114, 117, 115, 116, 46, 101, 120,
           97, 109, 112, 108, 101, 47, 111, 110, 116, 111, 108, 111, 103, 121,
           47, 77, 111, 100, 117, 108, 101>>,
     \* "http://rust.example/ontology/Trait"
     TRAIT |->
         <<104, 116, 116, 112, 58, 47, 47, 114, 117, 115, 116, 46, 101, 120,
           97, 109, 112, 108, 101, 47, 111, 110, 116, 111, 108, 111, 103, 121,
           47, 84, 114, 97, 105, 116>>,
     \* "http://rust.example/ontology/Union"
     UNION_ |->
         <<104, 116, 116, 112, 58, 47, 47, 114, 117, 115, 116, 46, 101, 120,
           97, 109, 112, 108, 101, 47, 111, 110, 116, 111, 108, 111, 103, 121,
           47, 85, 110, 105, 111, 110>>,
     \* "http://rust.example/ontology/TypeAlias"
     TYPE_ALIAS |->
         <<104, 116, 116, 112, 58, 47, 47, 114, 117, 115, 116, 46, 101, 120,
           97, 109, 112, 108, 101, 47, 111, 110, 116, 111, 108, 111, 103, 121,
           47, 84, 121, 112, 101, 65, 108, 105, 97, 115>>,
     \* "http://rust.example/ontology/EnumVariant"
     ENUM_VARIANT |->
         <<104, 116, 116, 112, 58, 47, 47, 114, 117, 115, 116, 46, 101, 120,
           97, 109, 112, 108, 101, 47, 111, 110, 116, 111, 108, 111, 103, 121,
           47, 69, 110, 117, 109, 86, 97, 114, 105, 97, 110, 116>>,
     \* "http://rust.example/ontology/TraitImpl"
     TRAIT_IMPL |->
         <<104, 116, 116, 112, 58, 47, 47, 114, 117, 115, 116, 46, 101, 120,
           97, 109, 112, 108, 101, 47, 111, 110, 116, 111, 108, 111, 103, 121,
           47, 84, 114, 97, 105, 116, 73, 109, 112, 108>>,
     \* "http://rust.example/ontology/InherentImpl"
     INHERENT_IMPL |->
         <<104, 116, 116, 112, 58, 47, 47, 114, 117, 115, 116, 46, 101, 120,
           97, 109, 112, 108, 101, 47, 111, 110, 116, 111, 108, 111, 103, 121,
           47, 73, 110, 104, 101, 114, 101, 110, 116, 73, 109, 112, 108>>,
     \* "http://rust.example/ontology/Lifetime"
     LIFETIME |->
         <<104, 116, 116, 112, 58, 47, 47, 114, 117, 115, 116, 46, 101, 120,
           97, 109, 112, 108, 101, 47, 111, 110, 116, 111, 108, 111, 103, 121,
           47, 76, 105, 102, 101, 116, 105, 109, 101>>,
     \* "http://rust.example/ontology/ConstParam"
     CONST_PARAM |->
         <<104, 116, 116, 112, 58, 47, 47, 114, 117, 115, 116, 46, 101, 120,
           97, 109, 112, 108, 101, 47, 111, 110, 116, 111, 108, 111, 103, 121,
           47, 67, 111, 110, 115, 116, 80, 97, 114, 97, 109>>,
     \* "http://rust.example/ontology/Static"
     STATIC |->
         <<104, 116, 116, 112, 58, 47, 47, 114, 117, 115, 116, 46, 101, 120,
           97, 109, 112, 108, 101, 47, 111, 110, 116, 111, 108, 111, 103, 121,
           47, 83, 116, 97, 116, 105, 99>>,
     \* "http://rust.example/ontology/Constant"
     CONSTANT_ |->
         <<104, 116, 116, 112, 58, 47, 47, 114, 117, 115, 116, 46, 101, 120,
           97, 109, 112, 108, 101, 47, 111, 110, 116, 111, 108, 111, 103, 121,
           47, 67, 111, 110, 115, 116, 97, 110, 116>>,
     \* "http://rust.example/ontology/dependsOn"
     DEPENDS_ON |->
         <<104, 116, 116, 112, 58, 47, 47, 114, 117, 115, 116, 46, 101, 120,
           97, 109, 112, 108, 101, 47, 111, 110, 116, 111, 108, 111, 103, 121,
           47, 100, 101, 112, 101, 110, 100, 115, 79, 110>>,
     \* "http://rust.example/ontology/superTrait"
     SUPER_TRAIT |->
         <<104, 116, 116, 112, 58, 47, 47, 114, 117, 115, 116, 46, 101, 120,
           97, 109, 112, 108, 101, 47, 111, 110, 116, 111, 108, 111, 103, 121,
           47, 115, 117, 112, 101, 114, 84, 114, 97, 105, 116>>,
     \* "http://rust.example/ontology/implFor"
     IMPL_FOR |->
         <<104, 116, 116, 112, 58, 47, 47, 114, 117, 115, 116, 46, 101, 120,
           97, 109, 112, 108, 101, 47, 111, 110, 116, 111, 108, 111, 103, 121,
           47, 105, 109, 112, 108, 70, 111, 114>>,
     \* "http://rust.example/ontology/implTrait"
     IMPL_TRAIT |->
         <<104, 116, 116, 112, 58, 47, 47, 114, 117, 115, 116, 46, 101, 120,
           97, 109, 112, 108, 101, 47, 111, 110, 116, 111, 108, 111, 103, 121,
           47, 105, 109, 112, 108, 84, 114, 97, 105, 116>>,
     \* "http://rust.example/ontology/hasVariant"
     HAS_VARIANT |->
         <<104, 116, 116, 112, 58, 47, 47, 114, 117, 115, 116, 46, 101, 120,
           97, 109, 112, 108, 101, 47, 111, 110, 116, 111, 108, 111, 103, 121,
           47, 104, 97, 115, 86, 97, 114, 105, 97, 110, 116>>,
     \* "http://rust.example/ontology/variantKind"
     VARIANT_KIND |->
         <<104, 116, 116, 112, 58, 47, 47, 114, 117, 115, 116, 46, 101, 120,
           97, 109, 112, 108, 101, 47, 111, 110, 116, 111, 108, 111, 103, 121,
           47, 118, 97, 114, 105, 97, 110, 116, 75, 105, 110, 100>>,
     \* "http://rust.example/ontology/variantField"
     VARIANT_FIELD |->
         <<104, 116, 116, 112, 58, 47, 47, 114, 117, 115, 116, 46, 101, 120,
           97, 109, 112, 108, 101, 47, 111, 110, 116, 111, 108, 111, 103, 121,
           47, 118, 97, 114, 105, 97, 110, 116, 70, 105, 101, 108, 100>>,
     \* "http://rust.example/ontology/hasLifetime"
     HAS_LIFETIME |->
         <<104, 116, 116, 112, 58, 47, 47, 114, 117, 115, 116, 46, 101, 120,
           97, 109, 112, 108, 101, 47, 111, 110, 116, 111, 108, 111, 103, 121,
           47, 104, 97, 115, 76, 105, 102, 101, 116, 105, 109, 101>>,
     \* "http://rust.example/ontology/isUnsafe"
     IS_UNSAFE |->
         <<104, 116, 116, 112, 58, 47, 47, 114, 117, 115, 116, 46, 101, 120,
           97, 109, 112, 108, 101, 47, 111, 110, 116, 111, 108, 111, 103, 121,
           47, 105, 115, 85, 110, 115, 97, 102, 101>>,
     \* "http://rust.example/ontology/isMutable"
     IS_MUTABLE |->
         <<104, 116, 116, 112, 58, 47, 47, 114, 117, 115, 116, 46, 101, 120,
           97, 109, 112, 108, 101, 47, 111, 110, 116, 111, 108, 111, 103, 121,
           47, 105, 115, 77, 117, 116, 97, 98, 108, 101>>,
     \* "http://rust.example/ontology/errorType"
     ERROR_TYPE |->
         <<104, 116, 116, 112, 58, 47, 47, 114, 117, 115, 116, 46, 101, 120,
           97, 109, 112, 108, 101, 47, 111, 110, 116, 111, 108, 111, 103, 121,
           47, 101, 114, 114, 111, 114, 84, 121, 112, 101>>,
     \* "http://rust.example/ontology/derives"
     DERIVES |->
         <<104, 116, 116, 112, 58, 47, 47, 114, 117, 115, 116, 46, 101, 120,
           97, 109, 112, 108, 101, 47, 111, 110, 116, 111, 108, 111, 103, 121,
           47, 100, 101, 114, 105, 118, 101, 115>>,
     \* "http://rust.example/ontology/traitBound"
     TRAIT_BOUND |->
         <<104, 116, 116, 112, 58, 47, 47, 114, 117, 115, 116, 46, 101, 120,
           97, 109, 112, 108, 101, 47, 111, 110, 116, 111, 108, 111, 103, 121,
           47, 116, 114, 97, 105, 116, 66, 111, 117, 110, 100>>]

(***************************************************************************)
(* extraction/rustdoc_model.rs: the parsed input.  Option<T> is the empty  *)
(* sequence (None) or a one-element sequence (Some); a HashMap is a        *)
(* function on its keys; a struct is a record and an enum value a record   *)
(* with the variant's name as tag; an Id is its string.                    *)
(***************************************************************************)
None == <<>>
Some(v) == <<v>>

\* HashMap::get
get(map, key) == IF key \in DOMAIN map THEN Some(map[key]) ELSE None

Item(name, visibility, attrs, inner) ==
    [name |-> name, visibility |-> visibility, attrs |-> attrs, inner |-> inner]

\* ResolvedPath, also the payload of Type::ResolvedPath
ResolvedPath(path, id, args) == [path |-> path, id |-> id, args |-> args, tag |-> "ResolvedPath"]

\* ItemEnum::Function with its FunctionSignature and FunctionHeader
Function(inputs, output, params, has_body, is_const, is_unsafe) ==
    [sig |-> [inputs |-> inputs, output |-> output],
     tag |-> "Function",
     has_body |-> has_body,
     generics |-> [params |-> params],
     header |-> [is_const |-> is_const, is_unsafe |-> is_unsafe, is_async |-> FALSE]]

u8 == [name |-> str("u8"), tag |-> "Primitive"]

(***************************************************************************)
(* The documents of the model.  Items holds every item by id; the root     *)
(* module of a document lists up to MaxItems of the top-level items, in    *)
(* any order and with repetition, and the index holds the root, the items  *)
(* listed and the items that come with them.  One module lists itself.    *)
(***************************************************************************)
Items ==
    LET Public == [tag |-> "Public"]
        Default == [tag |-> "Default"]
        Derived == <<[value |-> str("automatically_derived"), tag |-> "String"]>>
        path_S == ResolvedPath(str("S"), Some(str("id_S")), None)
        path_E == ResolvedPath(str("E"), Some(str("id_E")), None)
        path_Clone == ResolvedPath(str("Clone"), None, None)
        path_Debug == ResolvedPath(str("Debug"), Some(str("id_Debug")), None)
        path_T == ResolvedPath(str("T"), Some(str("id_T")), None)
        Result(path, args) ==
            Some(ResolvedPath(str(path), None,
                              Some([args |-> [i \in 1..Len(args) |->
                                                 [tag |-> "Type", type_ |-> args[i]]],
                                    tag |-> "AngleBracketed"])))
    IN
    \* pub struct S<T: Clone + 'a, 'a> { x: &u8, <an id that is not in the index>, new: T },
    \* with impls: a derived Clone, an inherent impl, an id that is not in the index
    (str("id_S") :> Item(Some(str("S")), Public, <<>>,
        [tag |-> "Struct",
         generics |-> [params |->
             <<[name |-> str("T"),
                kind |-> [tag |-> "Type",
                          bounds |-> <<[tag |-> "TraitBound", trait_ |-> path_Clone],
                                       [name |-> str("'a"), tag |-> "Outlives"]>>]],
               [name |-> str("'a"), kind |-> [tag |-> "Lifetime"]]>>],
         kind |-> [tag |-> "Plain",
                   fields |-> <<str("id_x"), str("id_missing"), str("id_y")>>],
         impls |-> <<str("id_impl_Clone"), str("id_impl_S"), str("id_missing")>>]))
    \* x: &u8
    @@ (str("id_x") :> Item(Some(str("x")), Default, <<>>,
            [tag |-> "StructField",
             type_ |-> [tag |-> "BorrowedRef", type_ |-> u8, is_mutable |-> FALSE]]))
    \* new: T, a field with the name of the function of the inherent impl
    @@ (str("id_y") :> Item(Some(str("new")), Default, <<>>,
            [tag |-> "StructField", type_ |-> [name |-> str("T"), tag |-> "Generic"]]))
    \* pub(crate) enum E { A(T, <stripped>), B }, with impls: a Debug written by hand and
    \* the derived Clone
    @@ (str("id_E") :> Item(Some(str("E")), [tag |-> "Crate"], <<>>,
            [tag |-> "Enum", generics |-> [params |-> <<>>],
             impls |-> <<str("id_impl_Debug"), str("id_impl_Clone")>>,
             variants |-> <<str("id_A"), str("id_B")>>]))
    @@ (str("id_A") :> Item(Some(str("A")), Default, <<>>,
            [tag |-> "Variant",
             kind |-> [tag |-> "Tuple", fields |-> <<Some(str("id_A0")), None>>]]))
    @@ (str("id_A0") :> Item(Some(str("0")), Default, <<>>,
            [tag |-> "StructField", type_ |-> [name |-> str("T"), tag |-> "Generic"]]))
    @@ (str("id_B") :> Item(Some(str("B")), Default, <<>>,
            [tag |-> "Variant", kind |-> [tag |-> "Plain"]]))
    \* pub unsafe fn f(self, a: u8, b: &u8) -> Result<u8, E>
    @@ (str("id_f") :> Item(Some(str("f")), Public, <<>>,
            Function(<<<<str("self"), [name |-> str("Self"), tag |-> "Generic"]>>,
                       <<str("a"), u8>>,
                       <<str("b"), [tag |-> "BorrowedRef", type_ |-> u8, is_mutable |-> FALSE]>>>>,
                     Result("Result", <<u8, path_E>>), <<>>, TRUE, FALSE, TRUE)))
    \* fn g<E: T>() -> io::Result<u8, E>, E the function's type parameter, bound by
    \* the trait T of the crate
    @@ (str("id_g") :> Item(Some(str("g")), Default, <<>>,
            Function(<<>>, Result("io::Result", <<u8, [name |-> str("E"), tag |-> "Generic"]>>),
                     <<[name |-> str("E"),
                        kind |-> [tag |-> "Type",
                                  bounds |-> <<[tag |-> "TraitBound", trait_ |-> path_T]>>]]>>,
                     TRUE, FALSE, FALSE)))
    \* pub unsafe trait T: Debug { fn m() -> Result<u8>; }
    @@ (str("id_T") :> Item(Some(str("T")), Public, <<>>,
            [tag |-> "Trait", is_unsafe |-> TRUE, generics |-> [params |-> <<>>],
             bounds |-> <<[tag |-> "TraitBound", trait_ |-> path_Debug]>>,
             items |-> <<str("id_m")>>]))
    @@ (str("id_m") :> Item(Some(str("m")), Default, <<>>,
            Function(<<>>, Result("Result", <<u8>>), <<>>, FALSE, FALSE, FALSE)))
    \* pub(super) const K: (u8, u8)
    @@ (str("id_K") :> Item(Some(str("K")), [path |-> str("super"), tag |-> "Restricted"], <<>>,
            [tag |-> "Constant", type_ |-> [tag |-> "Tuple", types |-> <<u8, u8>>]]))
    \* pub mod M { impl Clone for Debug {} pub static SI: u8; pub static mut ST: [u8; 4];
    \*             pub type Al = [u8]; pub union U<V> { x: &u8, <nameless>: u8 } and a second item U;
    \*             pub type Q = dyn T }
    @@ (str("id_M") :> Item(Some(str("M")), Public, <<>>,
            [tag |-> "Module",
             items |-> <<str("id_impl_F"), str("id_SI"), str("id_ST"), str("id_Al"),
                         str("id_U"), str("id_U2"), str("id_Q")>>]))
    \* pub type Q = dyn T
    @@ (str("id_Q") :> Item(Some(str("Q")), Public, <<>>,
            [tag |-> "TypeAlias", generics |-> [params |-> <<>>],
             type_ |-> Some([tag |-> "DynTrait"])]))
    \* pub static SI: u8
    @@ (str("id_SI") :> Item(Some(str("SI")), Public, <<>>,
            [tag |-> "Static", type_ |-> u8, is_mutable |-> FALSE]))
    @@ (str("id_ST") :> Item(Some(str("ST")), Public, <<>>,
            [tag |-> "Static",
             type_ |-> [tag |-> "Array", type_ |-> u8, len |-> str("4")],
             is_mutable |-> TRUE]))
    @@ (str("id_Al") :> Item(Some(str("Al")), Public, <<>>,
            [tag |-> "TypeAlias", generics |-> [params |-> <<>>],
             type_ |-> Some([tag |-> "Slice", type_ |-> u8])]))
    @@ (str("id_U") :> Item(Some(str("U")), Public, <<>>,
            [tag |-> "Union",
             generics |-> [params |-> <<[name |-> str("V"),
                                         kind |-> [tag |-> "Type", bounds |-> <<>>]]>>],
             fields |-> <<str("id_x"), str("id_n")>>,
             impls |-> <<>>]))
    \* a field without a name
    @@ (str("id_n") :> Item(None, Default, <<>>, [tag |-> "StructField", type_ |-> u8]))
    \* the second item of M with the name U: pub type U = u8
    @@ (str("id_U2") :> Item(Some(str("U")), Public, <<>>,
            [tag |-> "TypeAlias", generics |-> [params |-> <<>>], type_ |-> Some(u8)]))
    \* an impl whose target is the foreign core::fmt::Debug: impl Clone for Debug {}
    @@ (str("id_impl_F") :> Item(None, Default, <<>>,
            [tag |-> "Impl", trait_ |-> Some(path_Clone), items |-> <<>>, for_ |-> path_Debug,
             is_synthetic |-> FALSE, blanket_impl |-> None]))
    \* pub mod L whose item list holds L itself
    @@ (str("id_L") :> Item(Some(str("L")), Public, <<>>,
            [tag |-> "Module", items |-> <<str("id_L")>>]))
    \* #[automatically_derived] impl Clone for S {}
    @@ (str("id_impl_Clone") :> Item(None, Default, Derived,
            [tag |-> "Impl", trait_ |-> Some(path_Clone), items |-> <<>>, for_ |-> path_S,
             is_synthetic |-> FALSE, blanket_impl |-> None]))
    \* an inherent impl that carries the attribute:
    \* impl S { pub const fn new() -> a::Result<u8, str> }
    @@ (str("id_impl_S") :> Item(None, Default, Derived,
            [tag |-> "Impl", trait_ |-> None, items |-> <<str("id_new")>>, for_ |-> path_S,
             is_synthetic |-> FALSE, blanket_impl |-> None]))
    @@ (str("id_new") :> Item(Some(str("new")), Public, <<>>,
            Function(<<>>, Result("a::Result", <<u8, [name |-> str("str"), tag |-> "Primitive"]>>),
                     <<>>, TRUE, TRUE, FALSE)))
    \* impl Debug for E { type Out; async fn fmt(f: fn()) -> impl Sized {} }, written by hand
    @@ (str("id_impl_Debug") :> Item(None, Default, <<>>,
            [tag |-> "Impl", trait_ |-> Some(path_Debug),
             items |-> <<str("id_Out"), str("id_fmt")>>,
             for_ |-> path_E, is_synthetic |-> FALSE, blanket_impl |-> None]))
    @@ (str("id_fmt") :> Item(Some(str("fmt")), Default, <<>>,
            [Function(<<<<str("f"), [tag |-> "FunctionPointer"]>>>>,
                      Some([tag |-> "ImplTrait"]), <<>>, TRUE, FALSE, FALSE)
                EXCEPT !.header.is_async = TRUE]))
    @@ (str("id_Out") :> Item(Some(str("Out")), Default, <<>>, [tag |-> "AssocType"]))

\* the item lists of the root module
RootItems ==
    UNION {[1..n -> {str("id_S"), str("id_E"), str("id_f"), str("id_g"), str("id_T"),
                     str("id_K"), str("id_M"), str("id_L")}] : n \in 0..MaxItems}

\* the index of the document whose root module lists root_items
Index(root_items) ==
    LET ItemsOf(id) ==
            CASE id = str("id_S") ->
                    {id, str("id_x"), str("id_y"), str("id_impl_Clone"), str("id_impl_S"),
                     str("id_new")}
              [] id = str("id_E") ->
                    {id, str("id_A"), str("id_A0"), str("id_B"), str("id_impl_Debug"),
                     str("id_impl_Clone"), str("id_Out"), str("id_fmt")}
              [] id = str("id_T") -> {id, str("id_m")}
              [] id = str("id_M") ->
                    {id, str("id_ST"), str("id_Al"), str("id_U"), str("id_x"), str("id_U2"),
                     str("id_impl_F"), str("id_SI"), str("id_Q"), str("id_n")}
              [] OTHER -> {id}
    IN [id \in {str("id_root")} \cup UNION {ItemsOf(root_items[i]) : i \in 1..Len(root_items)} |->
           IF id = str("id_root")
           THEN Item(Some(str("c")), [tag |-> "Public"], <<>>, [tag |-> "Module", items |-> root_items])
           ELSE Items[id]]

\* Crate: no crate_version; paths names S, E, T and the external trait Debug; two
\* external crates
Documents ==
    {[root |-> str("id_root"),
      crate_version |-> None,
      index |-> Index(root_items),
      paths |-> (str("id_S") :> [path |-> <<str("c"), str("S")>>])
                @@ (str("id_E") :> [path |-> <<str("c"), str("E")>>])
                @@ (str("id_T") :> [path |-> <<str("c"), str("T")>>])
                @@ (str("id_Debug") :> [path |-> <<str("core"), str("fmt"), str("Debug")>>]),
      external_crates |-> (str("1") :> [name |-> str("std")]) @@ (str("2") :> [name |-> str("dep")])]
     : root_items \in RootItems}

(***************************************************************************)
(* emitter/mod.rs: the sink as the walker sees it, a TriplesEmitter that   *)
(* keeps the calls it received and counts the triples.                     *)
(***************************************************************************)
\* one call on the sink, written <<method, arguments>>: every emit_* method makes
\* one triple, add_prefix none
emit(e, call) ==
    [e EXCEPT !.calls = Append(@, call),
              !.count = IF call[1] = "add_prefix" THEN @ ELSE @ + 1]

triple_count(e) == e.count

(***************************************************************************)
(* extraction/extractor.rs.  An operator takes the extractor (self) and    *)
(* returns it as the function leaves it.                                   *)
(***************************************************************************)
\* self.emitter.<method>(...), for a run of consecutive calls
RECURSIVE put(_, _)
put(self, calls) ==
    IF Len(calls) = 0 THEN self
    ELSE put([self EXCEPT !.emitter = emit(@, Head(calls))], Tail(calls))

\* the node of item id was written under this identifier (kept for the analysis)
declare(self, kind, iri, id) == [self EXCEPT !.declared = Append(@, <<kind, iri, id>>)]

\* for (ordinal, x) in items.iter().enumerate() { body }
for_each(self, items, Body(_, _, _)) ==
    LET f[i \in 0..Len(items)] == IF i = 0 THEN self ELSE Body(f[i - 1], i - 1, items[i])
    IN f[Len(items)]

\* if cond { body }
when(cond, self, Body(_)) == IF cond THEN Body(self) ELSE self

\* let x = value; body
let_in(value, Body(_)) == Body(value)

\* if let Some(x) = opt { calls }, the calls that the body makes on the emitter
if_let_Some(opt, Calls(_)) == IF opt # None THEN Calls(opt[1]) ELSE <<>>

\* iter().flatten() over a Vec<Option<Id>>
RECURSIVE flatten_options(_)
flatten_options(opts) ==
    IF Len(opts) = 0 THEN <<>>
    ELSE (IF Head(opts) = None THEN <<>> ELSE <<Head(opts)[1]>>) \o flatten_options(Tail(opts))

\* [String]::join
RECURSIVE join(_, _)
join(parts, sep) ==
    IF Len(parts) = 0 THEN <<>>
    ELSE IF Len(parts) = 1 THEN parts[1]
    ELSE parts[1] \o sep \o join(Tail(parts), sep)

\* str::rsplit_once(sep).map(|(p, _)| p)
rsplit_once(s, sep) ==
    LET at == {i \in 1..(Len(s) - Len(sep) + 1) : SubSeq(s, i, i + Len(sep) - 1) = sep} IN
    IF at = {} THEN None
    ELSE Some(SubSeq(s, 1, (CHOOSE i \in at : \A j \in at : j <= i) - 1))

CrateExtractor_new(crate_data_, options_) ==
    LET root_item == get(crate_data_.index, crate_data_.root) IN
    [crate_name |-> IF root_item # None /\ root_item[1].name # None
                    THEN root_item[1].name[1] ELSE str("unknown"),
     crate_version |-> IF crate_data_.crate_version # None
                       THEN crate_data_.crate_version[1] ELSE str("0.0.0"),
     emitter |-> [count |-> 0, calls |-> <<>>],
     declared |-> <<>>,
     iris |-> IriMinter_new(options_.base_uri),
     options |-> options_,
     emitted_types |-> {},
     emitted_modules |-> {},
     stack |-> <<>>]

visibility_str(vis) ==
    CASE vis.tag = "Public" -> str("Public")
      [] vis.tag = "Default" -> str("Private")
      [] vis.tag = "Crate" -> str("Internal")
      [] vis.tag = "Restricted" /\ vis.path = str("super") -> str("Protected")
      [] OTHER -> str("Internal")

RECURSIVE type_display_name(_)
type_display_name(ty) ==
    CASE ty.tag = "Primitive" -> ty.name
      [] ty.tag = "ResolvedPath" -> ty.path
      [] ty.tag = "Generic" -> ty.name
      [] ty.tag = "Tuple" ->
            str("(")
            \o join([i \in 1..Len(ty.types) |-> type_display_name(ty.types[i])], str(","))
            \o str(")")
      [] ty.tag = "Slice" -> str("[") \o type_display_name(ty.type_) \o str("]")
      [] ty.tag = "Array" -> str("[") \o type_display_name(ty.type_) \o str(";") \o ty.len \o str("]")
      [] ty.tag = "BorrowedRef" ->
            (IF ty.is_mutable THEN str("&mut ") ELSE str("&")) \o type_display_name(ty.type_)
      [] ty.tag = "RawPointer" ->
            (IF ty.is_mutable THEN str("*mut ") ELSE str("*const ")) \o type_display_name(ty.type_)
      [] OTHER -> str("unknown")

\* resolve_path_to_iri where the item's own name comes before the side table
resolve_path_to_iri_ItemFirst(self, path) ==
    LET summary == IF path.id # None THEN get(crate_data.paths, path.id[1]) ELSE None
        item == IF path.id # None THEN get(crate_data.index, path.id[1]) ELSE None
    IN type_iri(self.iris, self.crate_name, self.crate_version,
                IF item # None /\ item[1].name # None THEN item[1].name[1]
                ELSE IF summary # None THEN join(summary[1].path, str("::"))
                ELSE path.path)

resolve_path_to_iri(self, path) ==
    LET summary == IF path.id # None THEN get(crate_data.paths, path.id[1]) ELSE None
        item == IF path.id # None THEN get(crate_data.index, path.id[1]) ELSE None
    IN type_iri(self.iris, self.crate_name, self.crate_version,
                IF summary # None THEN join(summary[1].path, str("::"))
                ELSE IF item # None /\ item[1].name # None THEN item[1].name[1]
                ELSE path.path)

resolve_type_to_iri(self, ty) ==
    CASE ty.tag = "ResolvedPath" -> Some(resolve_path_to_iri(self, ty))
      [] ty.tag = "Primitive" -> Some(primitive_type_iri(self.iris, ty.name))
      [] ty.tag = "Tuple" -> Some(tuple_type_iri(self.iris, Len(ty.types)))
      [] ty.tag = "Slice" -> Some(slice_type_iri(self.iris, type_display_name(ty.type_)))
      [] ty.tag = "Array" ->
            Some(array_type_iri(self.iris, type_display_name(ty.type_), ty.len))
      [] ty.tag = "RawPointer" ->
            Some(raw_pointer_type_iri(self.iris, type_display_name(ty.type_), ty.is_mutable))
      [] ty.tag = "BorrowedRef" ->
            Some(ref_type_iri(self.iris, type_display_name(ty.type_), ty.is_mutable))
      [] OTHER -> None

\* ensure_external_type_emitted where the stub is never written
ensure_external_type_emitted_Never(self, type_iri_, name) == self

ensure_external_type_emitted(self, type_iri_, name) ==
    IF type_iri_ \in self.emitted_types THEN self
    ELSE put([self EXCEPT !.emitted_types = @ \cup {type_iri_}],
             <<<<"emit_iri", type_iri_, standard.RDF_TYPE, tg.TYPE>>,
               <<"emit_literal", type_iri_, tg.NAME, name>>>>)

\* a variant in which the first type argument is taken for the error type
extract_error_type_FirstArg(self, fn_iri, sig) ==
    IF sig.output # None /\ sig.output[1].tag = "ResolvedPath"
       /\ sig.output[1].args # None /\ sig.output[1].args[1].tag = "AngleBracketed"
       /\ Len(sig.output[1].args[1].args) >= 2
       /\ sig.output[1].args[1].args[1].tag = "Type"
    THEN put(self, if_let_Some(resolve_type_to_iri(self, sig.output[1].args[1].args[1].type_),
                               LAMBDA err_iri :
                                   <<<<"emit_iri", fn_iri, rt.ERROR_TYPE, err_iri>>>>))
    ELSE self

extract_error_type(self, fn_iri, sig) ==
    IF sig.output # None /\ sig.output[1].tag = "ResolvedPath"
    THEN LET path == sig.output[1] IN
         IF path.path = str("Result") \/ ends_with(path.path, str("::Result"))
         THEN IF path.args # None /\ path.args[1].tag = "AngleBracketed"
              THEN LET args == path.args[1].args IN
                   IF Len(args) >= 2 /\ args[2].tag = "Type"
                   THEN put(self, if_let_Some(resolve_type_to_iri(self, args[2].type_),
                                              LAMBDA err_iri :
                                                  <<<<"emit_iri", fn_iri, rt.ERROR_TYPE,
                                                      err_iri>>>>))
                   ELSE self
              ELSE self
         ELSE self
    ELSE self

extract_generics(self, generics, owner_iri) ==
    for_each(self, generics.params, LAMBDA s0, ordinal, param :
        CASE param.kind.tag = "Type" ->
                LET tp_iri == type_parameter_iri(owner_iri, ordinal) IN
                for_each(put(s0, <<<<"emit_iri", tp_iri, standard.RDF_TYPE, tg.TYPE_PARAMETER>>,
                                   <<"emit_literal", tp_iri, tg.NAME, param.name>>,
                                   <<"emit_int", tp_iri, tg.ORDINAL, ordinal>>,
                                   <<"emit_iri", owner_iri, tg.HAS_TYPE_PARAMETER, tp_iri>>,
                                   <<"emit_iri", tp_iri, tg.TYPE_PARAMETER_OF, owner_iri>>>>),
                         param.kind.bounds, LAMBDA s2, k, bound :
                    IF bound.tag = "TraitBound"
                    THEN let_in(resolve_path_to_iri(s2, bound.trait_), LAMBDA bound_iri :
                             ensure_external_type_emitted(
                                 put(s2, <<<<"emit_iri", tp_iri, rt.TRAIT_BOUND, bound_iri>>>>),
                                 bound_iri, bound.trait_.path))
                    ELSE s2)
          [] param.kind.tag = "Lifetime" ->
                LET lt_iri == lifetime_iri(owner_iri, param.name) IN
                put(s0, <<<<"emit_iri", lt_iri, standard.RDF_TYPE, rt.LIFETIME>>,
                          <<"emit_literal", lt_iri, tg.NAME, param.name>>,
                          <<"emit_iri", owner_iri, rt.HAS_LIFETIME, lt_iri>>>>)
          [] param.kind.tag = "Const" ->
                LET cp_iri == type_parameter_iri(owner_iri, ordinal) IN
                put(s0, <<<<"emit_iri", cp_iri, standard.RDF_TYPE, rt.CONST_PARAM>>,
                          <<"emit_literal", cp_iri, tg.NAME, param.name>>,
                          <<"emit_int", cp_iri, tg.ORDINAL, ordinal>>,
                          <<"emit_iri", owner_iri, tg.HAS_TYPE_PARAMETER, cp_iri>>>>
                        \o if_let_Some(resolve_type_to_iri(s0, param.kind.type_),
                                       LAMBDA type_iri_ :
                                           <<<<"emit_iri", cp_iri, tg.PARAMETER_TYPE, type_iri_>>>>))
          [] OTHER -> s0)

has_type_params(generics) ==
    \E i \in 1..Len(generics.params) : generics.params[i].kind.tag = "Type"

extract_function_details(self, fn_iri, sig, generics, header) ==
    LET s1 == put(self,
                  (IF header.is_unsafe THEN <<<<"emit_bool", fn_iri, rt.IS_UNSAFE, TRUE>>>> ELSE <<>>)
                  \o (IF header.is_async THEN <<<<"emit_bool", fn_iri, tg.IS_ASYNC, TRUE>>>> ELSE <<>>)
                  \o (IF header.is_const THEN <<<<"emit_bool", fn_iri, tg.IS_CONST, TRUE>>>> ELSE <<>>)
                  \o (IF has_type_params(generics)
                      THEN <<<<"emit_bool", fn_iri, tg.IS_GENERIC, TRUE>>>> ELSE <<>>))
        s2 == extract_generics(s1, generics, fn_iri)
        s3 == for_each(s2, sig.inputs, LAMBDA s0, ordinal, input :
                  IF input[1] = str("self") THEN s0
                  ELSE LET param_iri == parameter_iri(fn_iri, ordinal) IN
                       put(s0, <<<<"emit_iri", param_iri, standard.RDF_TYPE, tg.PARAMETER>>,
                                 <<"emit_literal", param_iri, tg.NAME, input[1]>>,
                                 <<"emit_int", param_iri, tg.ORDINAL, ordinal>>,
                                 <<"emit_iri", fn_iri, tg.HAS_PARAMETER, param_iri>>,
                                 <<"emit_iri", param_iri, tg.PARAMETER_OF, fn_iri>>>>
                               \o if_let_Some(resolve_type_to_iri(s0, input[2]),
                                              LAMBDA type_iri_ :
                                                  <<<<"emit_iri", param_iri, tg.PARAMETER_TYPE,
                                                      type_iri_>>>>)))
    IN let_in(s3, LAMBDA s4 :
           put(s4, if_let_Some(sig.output, LAMBDA ret_type :
                       if_let_Some(resolve_type_to_iri(s4, ret_type), LAMBDA type_iri_ :
                           <<<<"emit_iri", fn_iri, tg.RETURN_TYPE, type_iri_>>>>))))

\* a variant that writes a derives literal for every impl of the list that is in the index
extract_derives_for_item_AnyImpl(self, item_id, type_iri_) ==
    LET item == get(crate_data.index, item_id) IN
    IF item = None THEN self
    ELSE for_each(self, item[1].inner.impls, LAMBDA s0, i, imp_id :
             LET imp_item == get(crate_data.index, imp_id) IN
             IF imp_item # None /\ imp_item[1].inner.tag = "Impl"
                /\ imp_item[1].inner.trait_ # None
             THEN put(s0, <<<<"emit_literal", type_iri_, rt.DERIVES,
                              imp_item[1].inner.trait_[1].path>>>>)
             ELSE s0)

\* a variant that reads the attributes of an impl only if include_attributes is set
extract_derives_for_item_IfAttributes(self, item_id, type_iri_) ==
    LET item == get(crate_data.index, item_id) IN
    IF item = None THEN self
    ELSE IF item[1].inner.tag \notin {"Struct", "Enum"} THEN self
    ELSE IF ~self.options.include_attributes THEN self
    ELSE for_each(self, item[1].inner.impls, LAMBDA s0, i, imp_id :
             LET imp_item == get(crate_data.index, imp_id) IN
             IF imp_item = None THEN s0
             ELSE IF ~\E k \in 1..Len(imp_item[1].attrs) :
                         /\ imp_item[1].attrs[k].tag = "String"
                         /\ imp_item[1].attrs[k].value = str("automatically_derived")
                  THEN s0
             ELSE IF imp_item[1].inner.tag = "Impl" /\ imp_item[1].inner.trait_ # None
             THEN put(s0, <<<<"emit_literal", type_iri_, rt.DERIVES,
                              imp_item[1].inner.trait_[1].path>>>>)
             ELSE s0)

extract_derives_for_item(self, item_id, type_iri_) ==
    LET item == get(crate_data.index, item_id) IN
    IF item = None THEN self
    ELSE IF item[1].inner.tag \notin {"Struct", "Enum"} THEN self
    ELSE for_each(self, item[1].inner.impls, LAMBDA s0, i, imp_id :
             LET imp_item == get(crate_data.index, imp_id) IN
             IF imp_item = None THEN s0
             ELSE IF ~\E k \in 1..Len(imp_item[1].attrs) :
                         /\ imp_item[1].attrs[k].tag = "String"
                         /\ imp_item[1].attrs[k].value = str("automatically_derived")
                  THEN s0
             ELSE IF imp_item[1].inner.tag = "Impl" /\ imp_item[1].inner.trait_ # None
             THEN put(s0, <<<<"emit_literal", type_iri_, rt.DERIVES,
                              imp_item[1].inner.trait_[1].path>>>>)
             ELSE s0)

\* a variant that writes the statements of a field before what the log holds
extract_field_Prepend(self, field_id, owner_iri) ==
    LET item == get(crate_data.index, field_id) IN
    IF item = None THEN self
    ELSE IF item[1].inner.tag # "StructField" THEN self
    ELSE let_in(member_iri(owner_iri,
                           IF item[1].name # None THEN item[1].name[1] ELSE str("unnamed"),
                           <<>>),
                LAMBDA field_iri :
             [declare(self, "Field", field_iri, field_id) EXCEPT !.emitter.calls =
                 (<<<<"emit_iri", field_iri, standard.RDF_TYPE, tg.FIELD>>,
                   <<"emit_literal", field_iri, tg.NAME,
                     IF item[1].name # None THEN item[1].name[1] ELSE str("unnamed")>>,
                   <<"emit_iri", owner_iri, tg.HAS_MEMBER, field_iri>>,
                   <<"emit_iri", field_iri, tg.MEMBER_OF, owner_iri>>,
                   <<"emit_literal", field_iri, tg.ACCESSIBILITY,
                     visibility_str(item[1].visibility)>>>>
                 \o if_let_Some(resolve_type_to_iri(self, item[1].inner.type_),
                                LAMBDA type_iri_ :
                                    <<<<"emit_iri", field_iri, tg.FIELD_TYPE, type_iri_>>>>))
                 \o @])

\* extract_field where a field whose type does not resolve writes nothing
extract_field_SkipUnresolved(self, field_id, owner_iri) ==
    LET item == get(crate_data.index, field_id) IN
    IF item = None THEN self
    ELSE IF item[1].inner.tag # "StructField" THEN self
    ELSE let_in(member_iri(owner_iri,
                           IF item[1].name # None THEN item[1].name[1] ELSE str("unnamed"),
                           <<>>),
                LAMBDA field_iri :
             put(declare(self, "Field", field_iri, field_id),
                 IF resolve_type_to_iri(self, item[1].inner.type_) = None THEN <<>> ELSE
                 <<<<"emit_iri", field_iri, standard.RDF_TYPE, tg.FIELD>>,
                   <<"emit_literal", field_iri, tg.NAME,
                     IF item[1].name # None THEN item[1].name[1] ELSE str("unnamed")>>,
                   <<"emit_iri", owner_iri, tg.HAS_MEMBER, field_iri>>,
                   <<"emit_iri", field_iri, tg.MEMBER_OF, owner_iri>>,
                   <<"emit_literal", field_iri, tg.ACCESSIBILITY,
                     visibility_str(item[1].visibility)>>>>
                 \o if_let_Some(resolve_type_to_iri(self, item[1].inner.type_),
                                LAMBDA type_iri_ :
                                    <<<<"emit_iri", field_iri, tg.FIELD_TYPE, type_iri_>>>>)))

extract_field(self, field_id, owner_iri) ==
    LET item == get(crate_data.index, field_id) IN
    IF item = None THEN self
    ELSE IF item[1].inner.tag # "StructField" THEN self
    ELSE let_in(member_iri(owner_iri,
                           IF item[1].name # None THEN item[1].name[1] ELSE str("unnamed"),
                           <<>>),
                LAMBDA field_iri :
             put(declare(self, "Field", field_iri, field_id),
                 <<<<"emit_iri", field_iri, standard.RDF_TYPE, tg.FIELD>>,
                   <<"emit_literal", field_iri, tg.NAME,
                     IF item[1].name # None THEN item[1].name[1] ELSE str("unnamed")>>,
                   <<"emit_iri", owner_iri, tg.HAS_MEMBER, field_iri>>,
                   <<"emit_iri", field_iri, tg.MEMBER_OF, owner_iri>>,
                   <<"emit_literal", field_iri, tg.ACCESSIBILITY,
                     visibility_str(item[1].visibility)>>>>
                 \o if_let_Some(resolve_type_to_iri(self, item[1].inner.type_),
                                LAMBDA type_iri_ :
                                    <<<<"emit_iri", field_iri, tg.FIELD_TYPE, type_iri_>>>>)))

extract_variant_field(self, field_id, variant_iri_) ==
    LET item == get(crate_data.index, field_id) IN
    IF item = None THEN self
    ELSE IF item[1].inner.tag # "StructField" THEN self
    ELSE let_in(member_iri(variant_iri_,
                           IF item[1].name # None THEN item[1].name[1] ELSE str("unnamed"),
                           <<>>),
                LAMBDA field_iri :
             put(declare(self, "VariantField", field_iri, field_id),
                 <<<<"emit_iri", field_iri, standard.RDF_TYPE, tg.FIELD>>,
                   <<"emit_literal", field_iri, tg.NAME,
                     IF item[1].name # None THEN item[1].name[1] ELSE str("unnamed")>>,
                   <<"emit_iri", variant_iri_, rt.VARIANT_FIELD, field_iri>>>>
                 \o if_let_Some(resolve_type_to_iri(self, item[1].inner.type_),
                                LAMBDA type_iri_ :
                                    <<<<"emit_iri", field_iri, tg.FIELD_TYPE, type_iri_>>>>)))

extract_variant(self, variant_id, enum_iri) ==
    LET item == get(crate_data.index, variant_id) IN
    IF item = None THEN self
    ELSE IF item[1].name = None THEN self
    ELSE let_in(variant_iri(enum_iri, item[1].name[1]), LAMBDA variant_iri_ :
             when(item[1].inner.tag = "Variant",
                  put(declare(self, "Variant", variant_iri_, variant_id),
                      <<<<"emit_iri", variant_iri_, standard.RDF_TYPE, rt.ENUM_VARIANT>>,
                        <<"emit_literal", variant_iri_, tg.NAME, item[1].name[1]>>,
                        <<"emit_iri", enum_iri, rt.HAS_VARIANT, variant_iri_>>>>),
                  LAMBDA s1 :
                      LET kind == item[1].inner.kind IN
                      for_each(put(s1, <<<<"emit_literal", variant_iri_, rt.VARIANT_KIND,
                                           CASE kind.tag = "Plain" -> str("plain")
                                             [] kind.tag = "Tuple" -> str("tuple")
                                             [] kind.tag = "Struct" -> str("struct")>>>>),
                               CASE kind.tag = "Plain" -> <<>>
                                 [] kind.tag = "Tuple" -> flatten_options(kind.fields)
                                 [] kind.tag = "Struct" -> kind.fields,
                               LAMBDA s0, i, field_id :
                                   extract_variant_field(s0, field_id, variant_iri_))))

extract_struct(self, item_id, item, module_path) ==
    IF item.name = None THEN self
    ELSE let_in(type_iri(self.iris, self.crate_name, self.crate_version,
                         module_path \o str("::") \o item.name[1]),
                LAMBDA type_iri_ :
         IF type_iri_ \in self.emitted_types THEN self
         ELSE when(self.options.extract_derives,
                   when(item.inner.tag = "Struct",
                        put(declare([self EXCEPT !.emitted_types = @ \cup {type_iri_}],
                                    "Struct", type_iri_, item_id),
                            <<<<"emit_iri", type_iri_, standard.RDF_TYPE, tg.STRUCT>>,
                              <<"emit_literal", type_iri_, tg.NAME, item.name[1]>>,
                              <<"emit_literal", type_iri_, tg.FULL_NAME,
                                module_path \o str("::") \o item.name[1]>>,
                              <<"emit_iri", type_iri_, tg.DEFINED_IN_ASSEMBLY,
                                crate_iri(self.iris, self.crate_name, self.crate_version)>>,
                              <<"emit_iri", type_iri_, tg.IN_NAMESPACE,
                                module_iri(self.iris, self.crate_name, self.crate_version,
                                           module_path)>>,
                              <<"emit_literal", type_iri_, tg.ACCESSIBILITY,
                                visibility_str(item.visibility)>>>>),
                        LAMBDA s1 :
                            LET generics == item.inner.generics
                                kind == item.inner.kind
                            IN for_each(extract_generics(
                                            put(s1, IF has_type_params(generics)
                                                    THEN <<<<"emit_bool", type_iri_,
                                                             tg.IS_GENERIC, TRUE>>>>
                                                    ELSE <<>>),
                                            generics, type_iri_),
                                        CASE kind.tag = "Plain" -> kind.fields
                                          [] kind.tag = "Tuple" -> flatten_options(kind.fields)
                                          [] kind.tag = "Unit" -> <<>>,
                                        LAMBDA s0, i, field_id :
                                            extract_field(s0, field_id, type_iri_))),
                   LAMBDA s2 : extract_derives_for_item(s2, item_id, type_iri_)))

extract_enum(self, item_id, item, module_path) ==
    IF item.name = None THEN self
    ELSE let_in(type_iri(self.iris, self.crate_name, self.crate_version,
                         module_path \o str("::") \o item.name[1]),
                LAMBDA type_iri_ :
         IF type_iri_ \in self.emitted_types THEN self
         ELSE when(self.options.extract_derives,
                   when(item.inner.tag = "Enum",
                        put(declare([self EXCEPT !.emitted_types = @ \cup {type_iri_}],
                                    "Enum", type_iri_, item_id),
                            <<<<"emit_iri", type_iri_, standard.RDF_TYPE, tg.ENUM>>,
                              <<"emit_literal", type_iri_, tg.NAME, item.name[1]>>,
                              <<"emit_literal", type_iri_, tg.FULL_NAME,
                                module_path \o str("::") \o item.name[1]>>,
                              <<"emit_iri", type_iri_, tg.DEFINED_IN_ASSEMBLY,
                                crate_iri(self.iris, self.crate_name, self.crate_version)>>,
                              <<"emit_iri", type_iri_, tg.IN_NAMESPACE,
                                module_iri(self.iris, self.crate_name, self.crate_version,
                                           module_path)>>,
                              <<"emit_literal", type_iri_, tg.ACCESSIBILITY,
                                visibility_str(item.visibility)>>>>),
                        LAMBDA s1 :
                            LET generics == item.inner.generics IN
                            for_each(extract_generics(
                                         put(s1, IF has_type_params(generics)
                                                 THEN <<<<"emit_bool", type_iri_,
                                                          tg.IS_GENERIC, TRUE>>>>
                                                 ELSE <<>>),
                                         generics, type_iri_),
                                     item.inner.variants,
                                     LAMBDA s0, i, variant_id :
                                         extract_variant(s0, variant_id, type_iri_))),
                   LAMBDA s2 : extract_derives_for_item(s2, item_id, type_iri_)))

extract_type_method(self, method_id, owner_iri) ==
    LET item == get(crate_data.index, method_id) IN
    IF item = None THEN self
    ELSE IF item[1].name = None THEN self
    ELSE let_in(member_iri(owner_iri, item[1].name[1], <<>>), LAMBDA method_iri :
             when(item[1].inner.tag = "Function",
                  put(declare(self, "Method", method_iri, method_id),
                      <<<<"emit_iri", method_iri, standard.RDF_TYPE, tg.METHOD>>,
                        <<"emit_literal", method_iri, tg.NAME, item[1].name[1]>>,
                        <<"emit_iri", owner_iri, tg.HAS_MEMBER, method_iri>>,
                        <<"emit_iri", method_iri, tg.MEMBER_OF, owner_iri>>,
                        <<"emit_literal", method_iri, tg.ACCESSIBILITY,
                          visibility_str(item[1].visibility)>>>>),
                  LAMBDA s1 :
                      when(self.options.extract_error_types,
                           put(extract_function_details(s1, method_iri, item[1].inner.sig,
                                                        item[1].inner.generics,
                                                        item[1].inner.header),
                               IF ~item[1].inner.has_body
                               THEN <<<<"emit_bool", method_iri, tg.IS_ABSTRACT, TRUE>>>>
                               ELSE <<>>),
                           LAMBDA s3 : extract_error_type(s3, method_iri, item[1].inner.sig))))

extract_trait(self, item_id, item, module_path) ==
    IF item.name = None THEN self
    ELSE let_in(type_iri(self.iris, self.crate_name, self.crate_version,
                         module_path \o str("::") \o item.name[1]),
                LAMBDA type_iri_ :
         IF type_iri_ \in self.emitted_types THEN self
         ELSE when(item.inner.tag = "Trait",
                   put(declare([self EXCEPT !.emitted_types = @ \cup {type_iri_}],
                               "Trait", type_iri_, item_id),
                       <<<<"emit_iri", type_iri_, standard.RDF_TYPE, tg.INTERFACE>>,
                         <<"emit_iri", type_iri_, standard.RDF_TYPE, rt.TRAIT>>,
                         <<"emit_literal", type_iri_, tg.NAME, item.name[1]>>,
                         <<"emit_literal", type_iri_, tg.FULL_NAME,
                           module_path \o str("::") \o item.name[1]>>,
                         <<"emit_iri", type_iri_, tg.DEFINED_IN_ASSEMBLY,
                           crate_iri(self.iris, self.crate_name, self.crate_version)>>,
                         <<"emit_iri", type_iri_, tg.IN_NAMESPACE,
                           module_iri(self.iris, self.crate_name, self.crate_version,
                                      module_path)>>,
                         <<"emit_literal", type_iri_, tg.ACCESSIBILITY,
                           visibility_str(item.visibility)>>>>),
                   LAMBDA s1 :
                       LET generics == item.inner.generics
                           s2 == put(s1, (IF item.inner.is_unsafe
                                          THEN <<<<"emit_bool", type_iri_, rt.IS_UNSAFE, TRUE>>>>
                                          ELSE <<>>)
                                         \o (IF has_type_params(generics)
                                             THEN <<<<"emit_bool", type_iri_, tg.IS_GENERIC,
                                                      TRUE>>>>
                                             ELSE <<>>))
                           s3 == extract_generics(s2, generics, type_iri_)
                           s4 == for_each(s3, item.inner.bounds, LAMBDA s0, i, bound :
                                     IF bound.tag = "TraitBound"
                                     THEN let_in(resolve_path_to_iri(s0, bound.trait_),
                                                 LAMBDA supertrait_iri :
                                              ensure_external_type_emitted(
                                                  put(s0, <<<<"emit_iri", type_iri_,
                                                              rt.SUPER_TRAIT, supertrait_iri>>>>),
                                                  supertrait_iri, bound.trait_.path))
                                     ELSE s0)
                       IN for_each(s4, item.inner.items, LAMBDA s0, i, method_id :
                                       extract_type_method(s0, method_id, type_iri_))))

extract_module_function(self, item_id, item, module_path) ==
    IF item.name = None THEN self
    ELSE let_in(module_iri(self.iris, self.crate_name, self.crate_version, module_path),
                LAMBDA module_iri_ :
         let_in(member_iri(module_iri_, item.name[1], <<>>), LAMBDA fn_iri :
             when(item.inner.tag = "Function",
                  put(declare(self, "Function", fn_iri, item_id),
                      <<<<"emit_iri", fn_iri, standard.RDF_TYPE, tg.METHOD>>,
                        <<"emit_literal", fn_iri, tg.NAME, item.name[1]>>,
                        <<"emit_literal", fn_iri, tg.FULL_NAME,
                          module_path \o str("::") \o item.name[1]>>,
                        <<"emit_iri", module_iri_, tg.HAS_MEMBER, fn_iri>>,
                        <<"emit_iri", fn_iri, tg.MEMBER_OF, module_iri_>>,
                        <<"emit_literal", fn_iri, tg.ACCESSIBILITY,
                          visibility_str(item.visibility)>>>>),
                  LAMBDA s1 :
                      when(self.options.extract_error_types,
                           extract_function_details(s1, fn_iri, item.inner.sig,
                                                    item.inner.generics, item.inner.header),
                           LAMBDA s2 : extract_error_type(s2, fn_iri, item.inner.sig)))))

extract_constant(self, item, module_path) ==
    IF item.name = None THEN self
    ELSE let_in(module_iri(self.iris, self.crate_name, self.crate_version, module_path),
                LAMBDA module_iri_ :
         let_in(member_iri(module_iri_, item.name[1], <<>>), LAMBDA const_iri :
             put(declare(self, "Constant", const_iri, <<>>),
                 <<<<"emit_iri", const_iri, standard.RDF_TYPE, tg.FIELD>>,
                   <<"emit_iri", const_iri, standard.RDF_TYPE, rt.CONSTANT_>>,
                   <<"emit_literal", const_iri, tg.NAME, item.name[1]>>,
                   <<"emit_bool", const_iri, tg.IS_CONST, TRUE>>,
                   <<"emit_iri", module_iri_, tg.HAS_MEMBER, const_iri>>,
                   <<"emit_iri", const_iri, tg.MEMBER_OF, module_iri_>>,
                   <<"emit_literal", const_iri, tg.ACCESSIBILITY,
                     visibility_str(item.visibility)>>>>
                 \o if_let_Some(IF item.inner.tag = "Constant"
                                THEN resolve_type_to_iri(self, item.inner.type_) ELSE None,
                                LAMBDA type_iri_ :
                                    <<<<"emit_iri", const_iri, tg.FIELD_TYPE, type_iri_>>>>))))

\* extract_static where the flag is written with the value of is_mutable
extract_static_FlagValue(self, item, module_path) ==
    IF item.name = None THEN self
    ELSE let_in(module_iri(self.iris, self.crate_name, self.crate_version, module_path),
                LAMBDA module_iri_ :
         let_in(member_iri(module_iri_, item.name[1], <<>>), LAMBDA static_iri :
             put(declare(self, "Static", static_iri, <<>>),
                 <<<<"emit_iri", static_iri, standard.RDF_TYPE, rt.STATIC>>,
                   <<"emit_literal", static_iri, tg.NAME, item.name[1]>>,
                   <<"emit_iri", module_iri_, tg.HAS_MEMBER, static_iri>>,
                   <<"emit_iri", static_iri, tg.MEMBER_OF, module_iri_>>,
                   <<"emit_literal", static_iri, tg.ACCESSIBILITY,
                     visibility_str(item.visibility)>>>>
                 \o (IF item.inner.tag = "Static"
                     THEN <<<<"emit_bool", static_iri, rt.IS_MUTABLE, item.inner.is_mutable>>>>
                     ELSE <<>>)
                 \o if_let_Some(IF item.inner.tag = "Static"
                                THEN resolve_type_to_iri(self, item.inner.type_) ELSE None,
                                LAMBDA type_iri_ :
                                    <<<<"emit_iri", static_iri, tg.FIELD_TYPE, type_iri_>>>>))))

extract_static(self, item, module_path) ==
    IF item.name = None THEN self
    ELSE let_in(module_iri(self.iris, self.crate_name, self.crate_version, module_path),
                LAMBDA module_iri_ :
         let_in(member_iri(module_iri_, item.name[1], <<>>), LAMBDA static_iri :
             put(declare(self, "Static", static_iri, <<>>),
                 <<<<"emit_iri", static_iri, standard.RDF_TYPE, rt.STATIC>>,
                   <<"emit_literal", static_iri, tg.NAME, item.name[1]>>,
                   <<"emit_iri", module_iri_, tg.HAS_MEMBER, static_iri>>,
                   <<"emit_iri", static_iri, tg.MEMBER_OF, module_iri_>>,
                   <<"emit_literal", static_iri, tg.ACCESSIBILITY,
                     visibility_str(item.visibility)>>>>
                 \o (IF item.inner.tag = "Static" /\ item.inner.is_mutable
                     THEN <<<<"emit_bool", static_iri, rt.IS_MUTABLE, TRUE>>>>
                     ELSE <<>>)
                 \o if_let_Some(IF item.inner.tag = "Static"
                                THEN resolve_type_to_iri(self, item.inner.type_) ELSE None,
                                LAMBDA type_iri_ :
                                    <<<<"emit_iri", static_iri, tg.FIELD_TYPE, type_iri_>>>>))))

\* a variant that does not look the identifier up in emitted_types
extract_type_alias_Unguarded(self, item, module_path) ==
    IF item.name = None THEN self
    ELSE let_in(type_iri(self.iris, self.crate_name, self.crate_version,
                         module_path \o str("::") \o item.name[1]),
                LAMBDA type_iri_ :
         put(declare([self EXCEPT !.emitted_types = @ \cup {type_iri_}],
                          "TypeAlias", type_iri_, <<>>),
                  <<<<"emit_iri", type_iri_, standard.RDF_TYPE, rt.TYPE_ALIAS>>,
                    <<"emit_literal", type_iri_, tg.NAME, item.name[1]>>,
                    <<"emit_literal", type_iri_, tg.FULL_NAME,
                      module_path \o str("::") \o item.name[1]>>,
                    <<"emit_iri", type_iri_, tg.DEFINED_IN_ASSEMBLY,
                      crate_iri(self.iris, self.crate_name, self.crate_version)>>,
                    <<"emit_iri", type_iri_, tg.IN_NAMESPACE,
                      module_iri(self.iris, self.crate_name, self.crate_version, module_path)>>,
                    <<"emit_literal", type_iri_, tg.ACCESSIBILITY,
                      visibility_str(item.visibility)>>>>
                  \o if_let_Some(IF item.inner.tag = "TypeAlias" /\ item.inner.type_ # None
                                 THEN resolve_type_to_iri(self, item.inner.type_[1]) ELSE None,
                                 LAMBDA target_iri :
                                     <<<<"emit_iri", type_iri_, tg.RELATED_TO, target_iri>>>>)))

extract_type_alias(self, item, module_path) ==
    IF item.name = None THEN self
    ELSE let_in(type_iri(self.iris, self.crate_name, self.crate_version,
                         module_path \o str("::") \o item.name[1]),
                LAMBDA type_iri_ :
         IF type_iri_ \in self.emitted_types THEN self
         ELSE put(declare([self EXCEPT !.emitted_types = @ \cup {type_iri_}],
                          "TypeAlias", type_iri_, <<>>),
                  <<<<"emit_iri", type_iri_, standard.RDF_TYPE, rt.TYPE_ALIAS>>,
                    <<"emit_literal", type_iri_, tg.NAME, item.name[1]>>,
                    <<"emit_literal", type_iri_, tg.FULL_NAME,
                      module_path \o str("::") \o item.name[1]>>,
                    <<"emit_iri", type_iri_, tg.DEFINED_IN_ASSEMBLY,
                      crate_iri(self.iris, self.crate_name, self.crate_version)>>,
                    <<"emit_iri", type_iri_, tg.IN_NAMESPACE,
                      module_iri(self.iris, self.crate_name, self.crate_version, module_path)>>,
                    <<"emit_literal", type_iri_, tg.ACCESSIBILITY,
                      visibility_str(item.visibility)>>>>
                  \o if_let_Some(IF item.inner.tag = "TypeAlias" /\ item.inner.type_ # None
                                 THEN resolve_type_to_iri(self, item.inner.type_[1]) ELSE None,
                                 LAMBDA target_iri :
                                     <<<<"emit_iri", type_iri_, tg.RELATED_TO, target_iri>>>>)))

extract_union(self, item_id, item, module_path) ==
    IF item.name = None THEN self
    ELSE let_in(type_iri(self.iris, self.crate_name, self.crate_version,
                         module_path \o str("::") \o item.name[1]),
                LAMBDA type_iri_ :
         IF type_iri_ \in self.emitted_types THEN self
         ELSE when(item.inner.tag = "Union",
                   put(declare([self EXCEPT !.emitted_types = @ \cup {type_iri_}],
                               "Union", type_iri_, item_id),
                       <<<<"emit_iri", type_iri_, standard.RDF_TYPE, rt.UNION_>>,
                         <<"emit_literal", type_iri_, tg.NAME, item.name[1]>>,
                         <<"emit_literal", type_iri_, tg.FULL_NAME,
                           module_path \o str("::") \o item.name[1]>>,
                         <<"emit_iri", type_iri_, tg.DEFINED_IN_ASSEMBLY,
                           crate_iri(self.iris, self.crate_name, self.crate_version)>>,
                         <<"emit_iri", type_iri_, tg.IN_NAMESPACE,
                           module_iri(self.iris, self.crate_name, self.crate_version,
                                      module_path)>>,
                         <<"emit_literal", type_iri_, tg.ACCESSIBILITY,
                           visibility_str(item.visibility)>>>>),
                   LAMBDA s1 :
                       for_each(extract_generics(s1, item.inner.generics, type_iri_),
                                item.inner.fields, LAMBDA s0, i, field_id :
                                    extract_field(s0, field_id, type_iri_))))

extract_impl_item(self, item_id, owner_iri) ==
    LET item == get(crate_data.index, item_id) IN
    IF item = None THEN self
    ELSE CASE item[1].inner.tag = "Function" -> extract_type_method(self, item_id, owner_iri)
           [] item[1].inner.tag \in {"AssocType", "AssocConst"} ->
                IF item[1].name # None
                THEN let_in(member_iri(owner_iri, item[1].name[1], <<>>), LAMBDA member_iri_ :
                         put(declare(self, "Member", member_iri_, item_id),
                             <<<<"emit_iri", member_iri_, standard.RDF_TYPE, tg.MEMBER>>,
                               <<"emit_literal", member_iri_, tg.NAME, item[1].name[1]>>,
                               <<"emit_iri", owner_iri, tg.HAS_MEMBER, member_iri_>>>>))
                ELSE self
           [] OTHER -> self

\* process_impl where every impl item is owned by the target type
process_impl_OwnerIsTarget(self, impl_id) ==
    LET item == get(crate_data.index, impl_id) IN
    IF item = None THEN self
    ELSE IF item[1].inner.tag # "Impl" THEN self
    ELSE LET impl == item[1].inner IN
         IF impl.is_synthetic \/ impl.blanket_impl # None THEN self
         ELSE let_in(resolve_type_to_iri(self, impl.for_), LAMBDA for_iri :
              IF for_iri = None THEN self
              ELSE IF for_iri[1] \notin self.emitted_types THEN self
              ELSE let_in(impl_iri(self.iris, self.crate_name, self.crate_version, impl_id),
                          LAMBDA impl_iri_ :
                   for_each(IF impl.trait_ # None
                            THEN let_in(resolve_path_to_iri(self, impl.trait_[1]),
                                        LAMBDA trait_iri :
                                     ensure_external_type_emitted(
                                         put(declare(self, "TraitImpl", impl_iri_, impl_id),
                                             <<<<"emit_iri", impl_iri_, standard.RDF_TYPE,
                                                 rt.TRAIT_IMPL>>,
                                               <<"emit_iri", impl_iri_, rt.IMPL_FOR, for_iri[1]>>,
                                               <<"emit_iri", impl_iri_, rt.IMPL_TRAIT, trait_iri>>,
                                               <<"emit_iri", for_iri[1], tg.IMPLEMENTS,
                                                 trait_iri>>>>),
                                         trait_iri, impl.trait_[1].path))
                            ELSE put(declare(self, "InherentImpl", impl_iri_, impl_id),
                                     <<<<"emit_iri", impl_iri_, standard.RDF_TYPE,
                                         rt.INHERENT_IMPL>>,
                                       <<"emit_iri", impl_iri_, rt.IMPL_FOR, for_iri[1]>>>>),
                            impl.items, LAMBDA s0, i, method_id :
                                extract_impl_item(s0, method_id,
                                                  for_iri[1]))))

process_impl(self, impl_id) ==
    LET item == get(crate_data.index, impl_id) IN
    IF item = None THEN self
    ELSE IF item[1].inner.tag # "Impl" THEN self
    ELSE LET impl == item[1].inner IN
         IF impl.is_synthetic \/ impl.blanket_impl # None THEN self
         ELSE let_in(resolve_type_to_iri(self, impl.for_), LAMBDA for_iri :
              IF for_iri = None THEN self
              ELSE IF for_iri[1] \notin self.emitted_types THEN self
              ELSE let_in(impl_iri(self.iris, self.crate_name, self.crate_version, impl_id),
                          LAMBDA impl_iri_ :
                   for_each(IF impl.trait_ # None
                            THEN let_in(resolve_path_to_iri(self, impl.trait_[1]),
                                        LAMBDA trait_iri :
                                     ensure_external_type_emitted(
                                         put(declare(self, "TraitImpl", impl_iri_, impl_id),
                                             <<<<"emit_iri", impl_iri_, standard.RDF_TYPE,
                                                 rt.TRAIT_IMPL>>,
                                               <<"emit_iri", impl_iri_, rt.IMPL_FOR, for_iri[1]>>,
                                               <<"emit_iri", impl_iri_, rt.IMPL_TRAIT, trait_iri>>,
                                               <<"emit_iri", for_iri[1], tg.IMPLEMENTS,
                                                 trait_iri>>>>),
                                         trait_iri, impl.trait_[1].path))
                            ELSE put(declare(self, "InherentImpl", impl_iri_, impl_id),
                                     <<<<"emit_iri", impl_iri_, standard.RDF_TYPE,
                                         rt.INHERENT_IMPL>>,
                                       <<"emit_iri", impl_iri_, rt.IMPL_FOR, for_iri[1]>>>>),
                            impl.items, LAMBDA s0, i, method_id :
                                extract_impl_item(s0, method_id,
                                                  IF impl.trait_ = None THEN for_iri[1]
                                                  ELSE impl_iri_))))

\* impl_ids: the ids of the Impl items in the order index.iter() yielded them
process_all_impls(self, impl_ids) ==
    for_each(self, impl_ids, LAMBDA s0, i, impl_id : process_impl(s0, impl_id))

emit_module_node(self, module_path, item) ==
    IF module_path \in self.emitted_modules THEN self
    ELSE let_in(module_iri(self.iris, self.crate_name, self.crate_version, module_path),
                LAMBDA module_iri_ :
         put(declare([self EXCEPT !.emitted_modules = @ \cup {module_path}],
                     "Module", module_iri_, <<>>),
             <<<<"emit_iri", module_iri_, standard.RDF_TYPE, rt.MODULE_>>,
               <<"emit_iri", module_iri_, standard.RDF_TYPE, tg.NAMESPACE>>,
               <<"emit_literal", module_iri_, tg.NAME,
                 IF item.name # None THEN item.name[1] ELSE module_path>>,
               <<"emit_literal", module_iri_, tg.FULL_NAME, module_path>>,
               <<"emit_iri", module_iri_, tg.DEFINED_IN_ASSEMBLY,
                 crate_iri(self.iris, self.crate_name, self.crate_version)>>,
               <<"emit_literal", module_iri_, tg.ACCESSIBILITY,
                 visibility_str(item.visibility)>>>>
             \o if_let_Some(rsplit_once(module_path, str("::")), LAMBDA parent_path :
                    <<<<"emit_iri", module_iri_, tg.PARENT_NAMESPACE,
                        module_iri(self.iris, self.crate_name, self.crate_version,
                                   parent_path)>>>>)))

\* a variant that writes a module node for the root module as well
walk_module_RootToo(self, item_id, module_path) ==
    LET item == get(crate_data.index, item_id) IN
    IF item = None THEN self
    ELSE IF item[1].inner.tag # "Module" THEN self
    ELSE LET child_ids == item[1].inner.items IN
         [emit_module_node(self, module_path, item[1])
          EXCEPT !.stack = [i \in 1..Len(child_ids) |-> <<child_ids[i], module_path>>] \o @]

\* The calls of walk_item that the loop of walk_module is still to make are kept
\* on self.stack, each as <<child_id, module_path>>, the next one first.
walk_module(self, item_id, module_path) ==
    LET item == get(crate_data.index, item_id) IN
    IF item = None THEN self
    ELSE IF item[1].inner.tag # "Module" THEN self
    ELSE LET child_ids == item[1].inner.items IN
         [when(item_id # crate_data.root, self,
               LAMBDA s : emit_module_node(s, module_path, item[1]))
          EXCEPT !.stack = [i \in 1..Len(child_ids) |-> <<child_ids[i], module_path>>] \o @]

\* a variant that processes an impl where the walk meets it
walk_item_ImplInWalk(self, item_id, parent_module_path) ==
    LET item == get(crate_data.index, item_id) IN
    IF item = None THEN self
    ELSE CASE item[1].inner.tag = "Module" ->
                walk_module(self, item_id,
                            parent_module_path \o str("::")
                            \o (IF item[1].name # None THEN item[1].name[1] ELSE str("unnamed")))
           [] item[1].inner.tag = "Struct" ->
                extract_struct(self, item_id, item[1], parent_module_path)
           [] item[1].inner.tag = "Enum" ->
                extract_enum(self, item_id, item[1], parent_module_path)
           [] item[1].inner.tag = "Trait" ->
                extract_trait(self, item_id, item[1], parent_module_path)
           [] item[1].inner.tag = "Function" ->
                extract_module_function(self, item_id, item[1], parent_module_path)
           [] item[1].inner.tag = "Constant" ->
                extract_constant(self, item[1], parent_module_path)
           [] item[1].inner.tag = "Static" ->
                extract_static(self, item[1], parent_module_path)
           [] item[1].inner.tag = "TypeAlias" ->
                extract_type_alias(self, item[1], parent_module_path)
           [] item[1].inner.tag = "Union" ->
                extract_union(self, item_id, item[1], parent_module_path)
           [] item[1].inner.tag = "Impl" -> process_impl(self, item_id)
           [] OTHER -> self

walk_item(self, item_id, parent_module_path) ==
    LET item == get(crate_data.index, item_id) IN
    IF item = None THEN self
    ELSE CASE item[1].inner.tag = "Module" ->
                walk_module(self, item_id,
                            parent_module_path \o str("::")
                            \o (IF item[1].name # None THEN item[1].name[1] ELSE str("unnamed")))
           [] item[1].inner.tag = "Struct" ->
                extract_struct(self, item_id, item[1], parent_module_path)
           [] item[1].inner.tag = "Enum" ->
                extract_enum(self, item_id, item[1], parent_module_path)
           [] item[1].inner.tag = "Trait" ->
                extract_trait(self, item_id, item[1], parent_module_path)
           [] item[1].inner.tag = "Function" ->
                extract_module_function(self, item_id, item[1], parent_module_path)
           [] item[1].inner.tag = "Constant" ->
                extract_constant(self, item[1], parent_module_path)
           [] item[1].inner.tag = "Static" ->
                extract_static(self, item[1], parent_module_path)
           [] item[1].inner.tag = "TypeAlias" ->
                extract_type_alias(self, item[1], parent_module_path)
           [] item[1].inner.tag = "Union" ->
                extract_union(self, item_id, item[1], parent_module_path)
           [] OTHER -> self

register_prefixes(self) ==
    put(self, <<<<"add_prefix", str("rdf"), standard.RDF>>,
                <<"add_prefix", str("rdfs"), standard.RDFS>>,
                <<"add_prefix", str("xsd"), standard.XSD>>,
                <<"add_prefix", tg.PREFIX, tg.NS>>,
                <<"add_prefix", rt.PREFIX, rt.NS>>>>)

emit_crate_node(self) ==
    let_in(crate_iri(self.iris, self.crate_name, self.crate_version), LAMBDA crate_iri_ :
        put(self, <<<<"emit_iri", crate_iri_, standard.RDF_TYPE, rt.CRATE>>,
                    <<"emit_iri", crate_iri_, standard.RDF_TYPE, tg.ASSEMBLY>>,
                    <<"emit_literal", crate_iri_, tg.NAME, self.crate_name>>,
                    <<"emit_literal", crate_iri_, tg.LANGUAGE, str("rust")>>,
                    <<"emit_literal", crate_iri_, tg.VERSION, self.crate_version>>>>))

\* keys is the order in which external_crates.values() yielded the entries
emit_external_crates(self, keys) ==
    for_each(self, keys, LAMBDA s0, i, k :
        let_in(crate_iri(self.iris, crate_data.external_crates[k].name, str("0.0.0")),
               LAMBDA dep_iri :
            put(s0, <<<<"emit_iri",
                        crate_iri(self.iris, self.crate_name, self.crate_version),
                        rt.DEPENDS_ON, dep_iri>>,
                      <<"emit_iri", dep_iri, standard.RDF_TYPE, rt.CRATE>>,
                      <<"emit_literal", dep_iri, tg.NAME,
                        crate_data.external_crates[k].name>>>>)))

\* a variant in which the flag is read the other way round
extract_include_impls_Inverted(self, impl_ids) ==
    IF ~self.options.include_impls THEN process_all_impls(self, impl_ids) ELSE self

\* lines 97-99 of extract: the impl pass runs when include_impls is set
extract_include_impls(self, impl_ids) ==
    IF self.options.include_impls THEN process_all_impls(self, impl_ids) ELSE self

(***************************************************************************)
(* main.rs, run: the N-Triples pipeline hands every call of the walker to  *)
(* an NTriplesEmitter and flushes it; the output is the lines written.     *)
(***************************************************************************)
run_ntriples(calls) ==
    LET NT_call(e, call) ==
            CASE call[1] = "emit_iri" -> NT_emit_iri(e, call[2], call[3], call[4])
              [] call[1] = "emit_literal" -> NT_emit_literal(e, call[2], call[3], call[4])
              [] call[1] = "emit_bool" -> NT_emit_bool(e, call[2], call[3], call[4])
              [] call[1] = "emit_int" -> NT_emit_int(e, call[2], call[3], call[4])
              [] call[1] = "add_prefix" -> NT_add_prefix(e, call[2], call[3])
        f[i \in 0..Len(calls)] ==
            IF i = 0 THEN [out |-> <<>>, count |-> 0] ELSE NT_call(f[i - 1], calls[i])
    IN NT_flush(f[Len(calls)])

(***************************************************************************)
(* The pipeline, run twice on one document: the first run has              *)
(* include_attributes set, as Default sets it, the second run has the      *)
(* options of the first, or the same with one option switched off.  Each   *)
(* run                                                                     *)
(* parses the document into its own HashMaps, so each has its own          *)
(* iteration order; iter keeps the orders the runs met.  The two runs      *)
(* advance through extract() together.                                     *)
(***************************************************************************)
AllOptions ==
    {[base_uri |-> str("http://x/"), include_attributes |-> b, extract_derives |-> d,
      extract_error_types |-> c, include_impls |-> a] : a, b, c, d \in BOOLEAN}

switch_off(options, flag) ==
    CASE flag = "include_impls" -> [options EXCEPT !.include_impls = FALSE]
      [] flag = "extract_derives" -> [options EXCEPT !.extract_derives = FALSE]
      [] flag = "include_attributes" -> [options EXCEPT !.include_attributes = FALSE]
      [] OTHER -> options

\* a step of extract() in both runs; in each run, with the order its HashMap yields
both(Step(_)) == <<Step(run[1]), Step(run[2])>>

each(Step(_, _), order1, order2) == <<Step(run[1], order1), Step(run[2], order2)>>

Init ==
    /\ IdleIri /\ IdleEscape /\ IdleEmit
    /\ crate_data \in Documents
    /\ \E options \in {o \in AllOptions : o.include_attributes},
          flag \in {"none", "include_impls", "extract_derives", "include_attributes"} :
           run = <<CrateExtractor_new(crate_data, options),
                   CrateExtractor_new(crate_data, switch_off(options, flag))>>
    /\ iter = <<[index |-> <<>>, external_crates |-> <<>>],
                 [index |-> <<>>, external_crates |-> <<>>]>>
    /\ pc = "register_prefixes"

RegisterPrefixes ==
    /\ pc = "register_prefixes"
    /\ run' = both(register_prefixes)
    /\ pc' = "emit_crate_node"
    /\ UNCHANGED <<crate_data, iter, iriVars, escVars, emitVars>>

EmitCrateNode ==
    /\ pc = "emit_crate_node"
    /\ run' = both(emit_crate_node)
    /\ pc' = "emit_external_crates"
    /\ UNCHANGED <<crate_data, iter, iriVars, escVars, emitVars>>

EmitExternalCrates ==
    /\ pc = "emit_external_crates"
    /\ \E k1, k2 \in Orders(DOMAIN crate_data.external_crates) :
           /\ run' = each(emit_external_crates, k1, k2)
           /\ iter' = <<[iter[1] EXCEPT !.external_crates = k1],
                        [iter[2] EXCEPT !.external_crates = k2]>>
    /\ pc' = "walk_module"
    /\ UNCHANGED <<crate_data, iriVars, escVars, emitVars>>

WalkModule ==
    /\ pc = "walk_module"
    /\ run' = both(LAMBDA self : walk_module(self, crate_data.root, self.crate_name))
    /\ pc' = IF Len(run'[1].stack) = 0 THEN "process_all_impls" ELSE "walk_item"
    /\ UNCHANGED <<crate_data, iter, iriVars, escVars, emitVars>>

\* the next call of walk_item that a walk_module in progress makes
next_walk_item(self) ==
    walk_item([self EXCEPT !.stack = Tail(@)], Head(self.stack)[1], Head(self.stack)[2])

\* the calls of walk_module that are on the call stack when walk_item is called
\* with this module path: one for each segment of the path
RECURSIVE nesting(_)
nesting(module_path) ==
    IF rsplit_once(module_path, str("::")) = None THEN 1
    ELSE 1 + nesting(rsplit_once(module_path, str("::"))[1])

\* walk_item is about to call walk_module for a module and the call stack of the
\* thread holds no further call
stack_exhausted(self) ==
    /\ get(crate_data.index, Head(self.stack)[1]) # None
    /\ crate_data.index[Head(self.stack)[1]].inner.tag = "Module"
    /\ nesting(Head(self.stack)[2]) >= MaxDepth

\* A call of walk_item.  walk_module and walk_item call each other; when the
\* stack is exhausted the process is aborted and extract() does not return.
WalkItem ==
    /\ pc = "walk_item"
    /\ IF stack_exhausted(run[1])
       THEN /\ pc' = "stack_overflow"
            /\ UNCHANGED run
       ELSE /\ run' = both(next_walk_item)
            /\ pc' = IF Len(run'[1].stack) = 0 THEN "process_all_impls" ELSE "walk_item"
    /\ UNCHANGED <<crate_data, iter, iriVars, escVars, emitVars>>

ProcessAllImpls ==
    /\ pc = "process_all_impls"
    /\ \E i1, i2 \in Orders({id \in DOMAIN crate_data.index :
                               crate_data.index[id].inner.tag = "Impl"}) :
           /\ run' = each(extract_include_impls, i1, i2)
           /\ iter' = <<[iter[1] EXCEPT !.index = i1], [iter[2] EXCEPT !.index = i2]>>
    /\ pc' = "done"
    /\ UNCHANGED <<crate_data, iriVars, escVars, emitVars>>

Next ==
    \/ RegisterPrefixes
    \/ EmitCrateNode
    \/ EmitExternalCrates
    \/ WalkModule
    \/ WalkItem
    \/ ProcessAllImpls

Spec == Init /\ [][Next]_vars

(***************************************************************************)
(* Properties of the extraction.                                           *)
(***************************************************************************)
\* the calls of a log that write a statement with the given predicate
with_predicate(calls, predicate) ==
    SelectSeq(calls, LAMBDA c : c[1] # "add_prefix" /\ c[3] = predicate)

without_predicate(calls, predicate) ==
    SelectSeq(calls, LAMBDA c : ~(c[1] # "add_prefix" /\ c[3] = predicate))

same_iteration == iter[1] = iter[2]

\* C1 (as the specification states it): two runs of the pipeline on the same
\* document with the same options and the N-Triples serializer write the same
\* bytes.
C1_Idempotent ==
    (pc = "done" /\ run[1].options = run[2].options)
        => run_ntriples(run[1].emitter.calls) = run_ntriples(run[2].emitter.calls)

\* C2: with every other option the same, the run with include_impls off has
\* counted no more triples than the run with include_impls on.
C2_ImplsOffNotMore ==
    (/\ pc = "done"
     /\ run[1].options.include_impls
     /\ run[2].options = [run[1].options EXCEPT !.include_impls = FALSE])
        => triple_count(run[2].emitter) <= triple_count(run[1].emitter)

C2_Witness ==
    /\ pc = "done"
    /\ run[1].options.include_impls
    /\ run[2].options = [run[1].options EXCEPT !.include_impls = FALSE]
    /\ \E i \in 1..Len(run[1].declared) : run[1].declared[i][1] = "TraitImpl"
    /\ \E i \in 1..Len(run[1].declared) : run[1].declared[i][1] = "InherentImpl"
    /\ triple_count(run[2].emitter) < triple_count(run[1].emitter)

\* the error type the claim names for a signature: the second angle-bracketed
\* argument of a return type that is a named path equal to Result or ending in
\* ::Result, when that argument is a type that resolves to an identifier
ClaimErrorType(self, sig) ==
    IF /\ sig.output # None
       /\ sig.output[1].tag = "ResolvedPath"
       /\ \/ sig.output[1].path = str("Result")
          \/ ends_with(sig.output[1].path, str("::Result"))
       /\ sig.output[1].args # None
       /\ sig.output[1].args[1].tag = "AngleBracketed"
       /\ Len(sig.output[1].args[1].args) >= 2
       /\ sig.output[1].args[1].args[2].tag = "Type"
    THEN resolve_type_to_iri(self, sig.output[1].args[1].args[2].type_)
    ELSE None

\* the functions and methods a run has emitted, each as <<kind, identifier, item id>>
emitted_functions(self) ==
    {self.declared[i] : i \in {j \in 1..Len(self.declared) :
                                  self.declared[j][1] \in {"Function", "Method"}}}

has_call(self, call) == \E i \in 1..Len(self.emitter.calls) : self.emitter.calls[i] = call

\* C9: with extract_error_types off no errorType statement is emitted; with it
\* on, every emitted function or method whose return type is a Result with a
\* second type argument that resolves has the errorType edge to that identifier.
C9_ErrorTypeEdges ==
    \A r \in 1..2 :
        IF run[r].options.extract_error_types
        THEN \A d \in emitted_functions(run[r]) :
                 LET item == crate_data.index[d[3]] IN
                 (item.inner.tag = "Function" /\ ClaimErrorType(run[r], item.inner.sig) # None)
                     => has_call(run[r], <<"emit_iri", d[2], rt.ERROR_TYPE,
                                           ClaimErrorType(run[r], item.inner.sig)[1]>>)
        ELSE Len(with_predicate(run[r].emitter.calls, rt.ERROR_TYPE)) = 0

\* a run with the flag on has emitted a module function and an impl method with
\* their errorType edges, and the other run, with the flag off, has none
C9_Witness ==
    /\ pc = "done"
    /\ \E r \in 1..2 :
           /\ run[r].options.extract_error_types
           /\ \E d \in emitted_functions(run[r]) :
                  /\ d[1] = "Function"
                  /\ ClaimErrorType(run[r], crate_data.index[d[3]].inner.sig) # None
           /\ \E d \in emitted_functions(run[r]) :
                  /\ d[1] = "Method"
                  /\ ClaimErrorType(run[r], crate_data.index[d[3]].inner.sig) # None
           /\ Len(with_predicate(run[r].emitter.calls, rt.ERROR_TYPE)) >= 2

\* the derives literals the claim names for a struct or enum: one per impl id
\* of its impls list that is in the index, carries the attribute string
\* automatically_derived and implements a trait, with the trait's path
ClaimDerives(type_iri_, item) ==
    LET impls == item.inner.impls
        counts(i) ==
            /\ impls[i] \in DOMAIN crate_data.index
            /\ \E k \in 1..Len(crate_data.index[impls[i]].attrs) :
                   crate_data.index[impls[i]].attrs[k]
                       = [value |-> str("automatically_derived"), tag |-> "String"]
            /\ crate_data.index[impls[i]].inner.tag = "Impl"
            /\ crate_data.index[impls[i]].inner.trait_ # None
        f[i \in 0..Len(impls)] ==
            IF i = 0 THEN <<>>
            ELSE IF counts(i)
            THEN Append(f[i - 1], <<"emit_literal", type_iri_, rt.DERIVES,
                                    crate_data.index[impls[i]].inner.trait_[1].path>>)
            ELSE f[i - 1]
    IN f[Len(impls)]

\* the derives literals of all the structs and enums a run has emitted, in the
\* order of their declarations
ClaimAllDerives(self) ==
    LET f[i \in 0..Len(self.declared)] ==
            IF i = 0 THEN <<>>
            ELSE IF self.declared[i][1] \in {"Struct", "Enum"}
            THEN f[i - 1] \o ClaimDerives(self.declared[i][2], crate_data.index[self.declared[i][3]])
            ELSE f[i - 1]
    IN f[Len(self.declared)]

\* C10: with extract_derives on, the derives statements are exactly one literal
\* per automatically derived trait impl of each emitted struct or enum, and
\* nothing else is emitted because of the flag: the run differs from the run
\* with the flag off by the derives literals only.  With extract_derives off
\* there is no derives statement.
C10_DerivesLiterals ==
    /\ \A r \in 1..2 :
           with_predicate(run[r].emitter.calls, rt.DERIVES)
               = IF run[r].options.extract_derives THEN ClaimAllDerives(run[r]) ELSE <<>>
    /\ (/\ run[1].options.extract_derives
        /\ run[2].options = [run[1].options EXCEPT !.extract_derives = FALSE]
        /\ same_iteration)
           => without_predicate(run[1].emitter.calls, rt.DERIVES) = run[2].emitter.calls

\* both a struct and an enum with a derived impl, an impl that is not derived
\* and an impl id missing from the index have been emitted with the flag on,
\* next to a run with the flag off
C10_Witness ==
    /\ pc = "done"
    /\ run[1].options.extract_derives
    /\ run[2].options = [run[1].options EXCEPT !.extract_derives = FALSE]
    /\ same_iteration
    /\ \E i, j \in 1..Len(run[1].declared) :
           /\ run[1].declared[i][1] = "Struct"
           /\ run[1].declared[j][1] = "Enum"
           /\ Len(ClaimDerives(run[1].declared[i][2], crate_data.index[run[1].declared[i][3]]))
                  < Len(crate_data.index[run[1].declared[i][3]].inner.impls)
           /\ Len(ClaimDerives(run[1].declared[j][2], crate_data.index[run[1].declared[j][3]])) = 1
    /\ Len(with_predicate(run[1].emitter.calls, rt.DERIVES)) = 2
    /\ Len(run[2].emitter.calls) < Len(run[1].emitter.calls)

(***************************************************************************)
(* Properties of the walk and of the impl pass.                            *)
(***************************************************************************)
\* the number of calls of a log that satisfy Test
count(calls, Test(_)) == Len(SelectSeq(calls, Test))

\* the classes that tag a struct, an enum, a union, a trait and a type alias
TypeClasses == {tg.STRUCT, tg.ENUM, rt.UNION_, tg.INTERFACE, rt.TYPE_ALIAS}

\* the predicates of the declaration statements of a type: name, full name,
\* owning library, namespace and visibility
DeclarationPredicates ==
    {tg.NAME, tg.FULL_NAME, tg.DEFINED_IN_ASSEMBLY, tg.IN_NAMESPACE, tg.ACCESSIBILITY}

is_type_tag(call) ==
    call[1] = "emit_iri" /\ call[3] = standard.RDF_TYPE /\ call[4] \in TypeClasses

\* the identifiers a log declares as a struct, enum, union, trait or type alias
declared_types(calls) == {calls[i][2] : i \in {j \in 1..Len(calls) : is_type_tag(calls[j])}}

\* the call of walk_item at the head of the stack is for a named struct, enum,
\* union, trait or type alias whose type identifier is in emitted_types
revisits_type(self) ==
    /\ Len(self.stack) > 0
    /\ get(crate_data.index, Head(self.stack)[1]) # None
    /\ LET item == crate_data.index[Head(self.stack)[1]] IN
       /\ item.inner.tag \in {"Struct", "Enum", "Union", "Trait", "TypeAlias"}
       /\ item.name # None
       /\ type_iri(self.iris, self.crate_name, self.crate_version,
                   Head(self.stack)[2] \o str("::") \o item.name[1]) \in self.emitted_types

\* C11: in each run and for each type identifier declared as a struct, enum,
\* union, trait or type alias, the kind tag and each of the name, full name,
\* owning library, namespace and visibility statements is in the log once; and
\* a call of walk_item for such an item whose type identifier was already
\* visited emits nothing.
C11_TypeDeclaredOnce ==
    \A r \in 1..2 :
        /\ \A t \in declared_types(run[r].emitter.calls) :
               /\ count(run[r].emitter.calls, LAMBDA c : is_type_tag(c) /\ c[2] = t) = 1
               /\ \A p \in DeclarationPredicates :
                      count(run[r].emitter.calls,
                            LAMBDA c : c[1] # "add_prefix" /\ c[2] = t /\ c[3] = p) = 1
        /\ (pc = "walk_item" /\ revisits_type(run[r]))
               => next_walk_item(run[r]).emitter.calls = run[r].emitter.calls

\* the walk has gone twice through the module M, which holds a union and a type
\* alias of the same name: the same items were reached twice, and two items with
\* one module path and name
C11_Witness ==
    /\ pc = "done"
    /\ crate_data.index[crate_data.root].inner.items = <<str("id_M"), str("id_M")>>
    /\ \E t \in declared_types(run[1].emitter.calls) :
           has_call(run[1], <<"emit_iri", t, standard.RDF_TYPE, rt.UNION_>>)
    /\ LET aliases == SelectSeq(run[1].declared, LAMBDA d : d[1] = "TypeAlias") IN
       /\ Len(aliases) >= 1
       /\ Len(aliases) = Cardinality({aliases[i][2] : i \in 1..Len(aliases)})

\* the subjects that a log tags as a Namespace
namespace_nodes(calls) ==
    {calls[j][2] : j \in {i \in 1..Len(calls) :
        /\ calls[i][1] = "emit_iri"
        /\ calls[i][3] = standard.RDF_TYPE
        /\ calls[i][4] = tg.NAMESPACE}}

\* the objects of the statements of a log with this subject and predicate, one
\* for each statement
objects(calls, subject, predicate) ==
    LET at == {i \in 1..Len(calls) :
                  /\ calls[i][1] # "add_prefix"
                  /\ calls[i][2] = subject
                  /\ calls[i][3] = predicate}
    IN [i \in at |-> calls[i][4]]

\* the module paths of the Namespace nodes of a log: their full names
namespace_paths(calls) ==
    UNION {{objects(calls, node, tg.FULL_NAME)[i] :
               i \in DOMAIN objects(calls, node, tg.FULL_NAME)} : node \in namespace_nodes(calls)}

\* C12: in each run every statement of a module's Namespace node is in the log
\* once, no two nodes are of one module path, the root module has no Namespace
\* node, and every module node has one parentNamespace edge, to the module
\* identifier of its path cut at the last "::".
C12_NamespaceOnce ==
    \A r \in 1..2 :
        LET self == run[r]
            calls == self.emitter.calls
            single(f) == Cardinality(DOMAIN f) = 1
            the(f) == f[CHOOSE i \in DOMAIN f : TRUE]
        IN /\ \A node \in namespace_nodes(calls) :
                  /\ single(objects(calls, node, tg.FULL_NAME))
                  /\ Cardinality(DOMAIN objects(calls, node, standard.RDF_TYPE)) = 2
                  /\ \A p \in {tg.NAME, tg.DEFINED_IN_ASSEMBLY, tg.ACCESSIBILITY,
                               tg.PARENT_NAMESPACE} : single(objects(calls, node, p))
                  /\ LET path == the(objects(calls, node, tg.FULL_NAME)) IN
                     /\ node = module_iri(self.iris, self.crate_name, self.crate_version, path)
                     /\ rsplit_once(path, str("::")) # None
                     /\ the(objects(calls, node, tg.PARENT_NAMESPACE))
                            = module_iri(self.iris, self.crate_name, self.crate_version,
                                         rsplit_once(path, str("::"))[1])
           /\ \A m, n \in namespace_nodes(calls) :
                  objects(calls, m, tg.FULL_NAME) = objects(calls, n, tg.FULL_NAME) => m = n
           /\ module_iri(self.iris, self.crate_name, self.crate_version, self.crate_name)
                  \notin namespace_nodes(calls)

\* the walk has ended after it went twice into the module M of the root, and
\* the log holds the node of c::M with its edge to the module identifier of c
C12_Witness ==
    /\ pc \in {"process_all_impls", "done"}
    /\ Len(SelectSeq(crate_data.index[crate_data.root].inner.items,
                     LAMBDA id : id = str("id_M"))) = 2
    /\ namespace_paths(run[1].emitter.calls) = {str("c::M")}
    /\ has_call(run[1], <<"emit_iri",
                          module_iri(run[1].iris, run[1].crate_name, run[1].crate_version,
                                     str("c::M")),
                          tg.PARENT_NAMESPACE,
                          module_iri(run[1].iris, run[1].crate_name, run[1].crate_version,
                                     str("c"))>>)

\* C13 (as the specification states it): extract() returns for every finite
\* document, one in which a module's item list holds the module itself
\* included: no run ends in the abort from which extract() does not return.
C13_Returns == pc # "stack_overflow"

\* a statement that only the impl pass writes: the tag of an impl block, implFor,
\* implTrait or implements
is_impl_statement(call) ==
    /\ call[1] = "emit_iri"
    /\ \/ call[3] \in {rt.IMPL_FOR, rt.IMPL_TRAIT, tg.IMPLEMENTS}
       \/ call[3] = standard.RDF_TYPE /\ call[4] \in {rt.TRAIT_IMPL, rt.INHERENT_IMPL}

\* the part of the output a call belongs to by what it writes: 1 a prefix
\* registration, 2 a statement of the Library node, 3 a statement of an external
\* dependency, 4 a statement of the tree walk or of the impl pass
section(library, dependencies, call) ==
    CASE call[1] = "add_prefix" -> 1
      [] call[1] # "add_prefix" /\ call[2] = library
             /\ call[3] \in {standard.RDF_TYPE, tg.NAME, tg.LANGUAGE, tg.VERSION} -> 2
      [] call[1] # "add_prefix" /\ (call[3] = rt.DEPENDS_ON \/ call[2] \in dependencies) -> 3
      [] OTHER -> 4

\* C14: in the log of each run the prefix registrations come first, then the
\* statements of the Library node, then those of the external dependencies,
\* then everything else; no statement of the impl pass is written before the
\* tree walk has ended, and the impl pass, in whatever order it meets the
\* impls, writes after all that the tree walk wrote.
C14_OutputOrder ==
    \A r \in 1..2 :
        LET calls == run[r].emitter.calls
            library == crate_iri(run[r].iris, run[r].crate_name, run[r].crate_version)
            dependencies ==
                {crate_iri(run[r].iris, crate_data.external_crates[k].name, str("0.0.0")) :
                    k \in DOMAIN crate_data.external_crates}
            sections == [i \in 1..Len(calls) |-> section(library, dependencies, calls[i])]
        IN /\ \A i \in 1..Len(calls) - 1 : sections[i] <= sections[i + 1]
           /\ pc # "done" => \A i \in 1..Len(calls) : ~is_impl_statement(calls[i])
           /\ pc = "process_all_impls" =>
                  \A impl_ids \in Orders({id \in DOMAIN crate_data.index :
                                             crate_data.index[id].inner.tag = "Impl"}) :
                      starts_with(extract_include_impls(run[r], impl_ids).emitter.calls, calls)

\* a run has written prefixes, the Library node, two dependencies, the walk of
\* a module that lists an impl, and then the statements of two impl blocks
C14_Witness ==
    /\ pc = "done"
    /\ str("id_M") \in DOMAIN crate_data.index
    /\ \E i, j, k \in 1..Len(run[1].emitter.calls) :
           /\ i < j /\ j < k
           /\ run[1].emitter.calls[i][1] # "add_prefix"
           /\ run[1].emitter.calls[i][3] = tg.PARENT_NAMESPACE
           /\ run[1].emitter.calls[j][1] # "add_prefix"
           /\ run[1].emitter.calls[j][3] = rt.IMPL_TRAIT
           /\ run[1].emitter.calls[k][1] # "add_prefix"
           /\ run[1].emitter.calls[k][3] = rt.IMPL_FOR
           /\ run[1].emitter.calls[k][2] # run[1].emitter.calls[j][2]

\* the ids of a list that are in the index with an item that passes Test
present(ids, Test(_)) ==
    SelectSeq(ids, LAMBDA id : id \in DOMAIN crate_data.index /\ Test(crate_data.index[id]))

\* The sub-elements of a declaration d = <<kind, identifier, item id>> of the
\* declared log, in declared order, each by the identifier its statements are
\* written under: the fields of a struct or union that are in the index,
field_iris(d) ==
    LET inner == crate_data.index[d[3]].inner
        ids == CASE d[1] = "Struct" /\ inner.tag = "Struct" /\ inner.kind.tag = "Plain" ->
                        inner.kind.fields
                 [] d[1] = "Struct" /\ inner.tag = "Struct" /\ inner.kind.tag = "Tuple" ->
                        flatten_options(inner.kind.fields)
                 [] d[1] = "Union" /\ inner.tag = "Union" -> inner.fields
                 [] OTHER -> <<>>
        fields == present(ids, LAMBDA item : item.inner.tag = "StructField")
    IN [i \in 1..Len(fields) |->
           member_iri(d[2],
                      IF crate_data.index[fields[i]].name # None
                      THEN crate_data.index[fields[i]].name[1] ELSE str("unnamed"),
                      <<>>)]

\* the named variants of an enum that are in the index,
variant_iris(d) ==
    LET inner == crate_data.index[d[3]].inner
        variants == IF d[1] = "Enum" /\ inner.tag = "Enum"
                    THEN present(inner.variants, LAMBDA item : item.name # None)
                    ELSE <<>>
    IN [i \in 1..Len(variants) |-> variant_iri(d[2], crate_data.index[variants[i]].name[1])]

\* the parameters of a function or method other than self,
parameter_iris(d) ==
    LET inner == crate_data.index[d[3]].inner
        inputs == IF d[1] \in {"Function", "Method"} /\ inner.tag = "Function"
                  THEN inner.sig.inputs ELSE <<>>
        ordinals == SelectSeq([i \in 1..Len(inputs) |-> i - 1],
                              LAMBDA ordinal : inputs[ordinal + 1][1] # str("self"))
    IN [i \in 1..Len(ordinals) |-> parameter_iri(d[2], ordinals[i])]

\* and the generic parameters of a struct, enum, union, trait, function or method
generic_iris(d) ==
    LET inner == crate_data.index[d[3]].inner
        params == IF d[1] \in {"Struct", "Enum", "Union", "Trait", "Function", "Method"}
                     /\ inner.tag \in {"Struct", "Enum", "Union", "Trait", "Function"}
                  THEN inner.generics.params ELSE <<>>
        ordinals == SelectSeq([i \in 1..Len(params) |-> i - 1],
                              LAMBDA ordinal : params[ordinal + 1].kind.tag
                                                   \in {"Type", "Lifetime", "Const"})
    IN [i \in 1..Len(ordinals) |->
           IF params[ordinals[i] + 1].kind.tag = "Lifetime"
           THEN lifetime_iri(d[2], params[ordinals[i] + 1].name)
           ELSE type_parameter_iri(d[2], ordinals[i])]

\* the statements of a log that are about one of the identifiers iris (as the
\* subject, or as the object of an edge), each as the place of the identifier in
\* iris, in the order of the log
ranks(calls, iris) ==
    LET rank(call) ==
            IF call[1] = "add_prefix" THEN 0
            ELSE LET at == {k \in 1..Len(iris) :
                               call[2] = iris[k] \/ (call[1] = "emit_iri" /\ call[4] = iris[k])}
                 IN IF at = {} THEN 0 ELSE CHOOSE k \in at : \A other \in at : k <= other
    IN SelectSeq([i \in 1..Len(calls) |-> rank(calls[i])], LAMBDA k : k # 0)

\* each time the declaration was written, the statements of its i-th sub-element
\* came before those of its j-th for i < j: the places go down only where the
\* declaration is written anew
in_declared_order(self, d, iris) ==
    LET q == ranks(self.emitter.calls, iris)
        written == Len(SelectSeq(self.declared, LAMBDA other : other[2] = d[2]))
    IN Cardinality({k \in 1..Len(q) - 1 : q[k] > q[k + 1]}) <= written - 1

\* the declarations of the declared log that have an item
declarations(self) ==
    {self.declared[i] : i \in {j \in 1..Len(self.declared) :
                                  self.declared[j][3] \in DOMAIN crate_data.index}}

written_impls(self) ==
    {self.declared[i] : i \in {j \in 1..Len(self.declared) :
                                  self.declared[j][1] \in {"TraitImpl", "InherentImpl"}}}

\* C16 (as the specification states it): the impl pass writes statements for an
\* impl only if the impl is not synthetic, is not a blanket impl, and its target
\* resolves to the identifier of a type that the walk wrote as a struct, enum,
\* union, trait or type alias; an impl on a foreign type writes nothing.
C16_ImplsOnLocalTypes ==
    \A r \in 1..2 : \A d \in written_impls(run[r]) :
        LET impl == crate_data.index[d[3]].inner IN
        /\ ~impl.is_synthetic
        /\ impl.blanket_impl = None
        /\ resolve_type_to_iri(run[r], impl.for_) # None
        /\ resolve_type_to_iri(run[r], impl.for_)[1] \in declared_types(run[r].emitter.calls)

\* the set of the values of a function
values(f) == {f[x] : x \in DOMAIN f}

\* the subjects of the statements subject predicate object
subjects(calls, predicate, object) ==
    {calls[i][2] : i \in {j \in 1..Len(calls) : /\ calls[j][1] = "emit_iri"
                                                /\ calls[j][3] = predicate
                                                /\ calls[j][4] = object}}

\* the function items of an impl that the index holds under a name
function_items(impl) ==
    {impl.items[i] : i \in {j \in 1..Len(impl.items) :
        /\ get(crate_data.index, impl.items[j]) # None
        /\ crate_data.index[impl.items[j]].inner.tag = "Function"
        /\ crate_data.index[impl.items[j]].name # None}}

\* the identifiers under which a run wrote the method item_id
method_iris(self, item_id) ==
    {self.declared[i][2] : i \in {j \in 1..Len(self.declared) :
                                     /\ self.declared[j][1] = "Method"
                                     /\ self.declared[j][3] = item_id}}

\* C17: of every impl the pass processed, each function item of an inherent impl
\* is a member of the target type (identifier minted under the target type,
\* hasMember and memberOf name the target type, the impl node has no member),
\* each function item of a trait impl is a member of the impl block (never of
\* the target type), and the impl node carries InherentImpl in the first case,
\* TraitImpl in the second, never both.
C17_ImplMemberOwner ==
    \A r \in 1..2 : \A d \in written_impls(run[r]) :
        LET calls == run[r].emitter.calls
            impl == crate_data.index[d[3]].inner
            for_iri == resolve_type_to_iri(run[r], impl.for_)[1]
            owner == IF impl.trait_ = None THEN for_iri ELSE d[2]
        IN /\ values(objects(calls, d[2], standard.RDF_TYPE))
                  = IF impl.trait_ = None THEN {rt.INHERENT_IMPL} ELSE {rt.TRAIT_IMPL}
           /\ d[1] = IF impl.trait_ = None THEN "InherentImpl" ELSE "TraitImpl"
           /\ impl.trait_ = None => values(objects(calls, d[2], tg.HAS_MEMBER)) = {}
           /\ \A item_id \in function_items(impl) :
                  LET method == member_iri(owner, crate_data.index[item_id].name[1], <<>>) IN
                  /\ method_iris(run[r], item_id) = {method}
                  /\ subjects(calls, tg.HAS_MEMBER, method) = {owner}
                  /\ values(objects(calls, method, tg.MEMBER_OF)) = {owner}

\* a finished run that wrote the inherent impl of S with its function new and
\* the trait impl of E with its function fmt
C17_Witness ==
    /\ pc = "done"
    /\ \E d, e \in written_impls(run[1]) :
           /\ d[1] = "InherentImpl" /\ function_items(crate_data.index[d[3]].inner) # {}
           /\ e[1] = "TraitImpl" /\ function_items(crate_data.index[e[3]].inner) # {}

\* the items a run declared under the identifier subject: the log names the item
\* id, except for a constant, static or type alias, which is found by its kind
\* and name
subject_items(self, subject) ==
    {crate_data.index[self.declared[i][3]] :
         i \in {j \in 1..Len(self.declared) :
                   /\ self.declared[j][2] = subject
                   /\ self.declared[j][1] \notin {"Constant", "Static", "TypeAlias"}
                   /\ self.declared[j][3] \in DOMAIN crate_data.index}}
    \cup {crate_data.index[id] : id \in {k \in DOMAIN crate_data.index :
             \E j \in 1..Len(self.declared) :
                 /\ self.declared[j][2] = subject
                 /\ self.declared[j][1] \in {"Constant", "Static", "TypeAlias"}
                 /\ crate_data.index[k].inner.tag = self.declared[j][1]
                 /\ crate_data.index[k].name
                        \in {Some(n) : n \in values(objects(self.emitter.calls, subject, tg.NAME))}}}

\* the flag predicate holds of the item
flag_holds(item, predicate) ==
    CASE predicate = rt.IS_UNSAFE ->
            \/ item.inner.tag = "Function" /\ item.inner.header.is_unsafe
            \/ item.inner.tag = "Trait" /\ item.inner.is_unsafe
      [] predicate = tg.IS_ASYNC -> item.inner.tag = "Function" /\ item.inner.header.is_async
      [] predicate = tg.IS_CONST ->
            \/ item.inner.tag = "Function" /\ item.inner.header.is_const
            \/ item.inner.tag = "Constant"
      [] predicate = tg.IS_GENERIC ->
            /\ item.inner.tag \in {"Function", "Struct", "Enum", "Trait"}
            /\ has_type_params(item.inner.generics)
      [] predicate = tg.IS_ABSTRACT -> item.inner.tag = "Function" /\ ~item.inner.has_body
      [] predicate = rt.IS_MUTABLE -> item.inner.tag = "Static" /\ item.inner.is_mutable
      [] OTHER -> FALSE

\* the boolean statements of a run
bool_calls(self) ==
    {self.emitter.calls[i] : i \in {j \in 1..Len(self.emitter.calls) :
                                       self.emitter.calls[j][1] = "emit_bool"}}

\* C18: every boolean statement the walker writes has the value true, and its
\* flag (isUnsafe, isAsync, isConst, isGeneric, isAbstract, isMutable) holds of
\* an item declared under its subject: a flag that does not hold is absent, no
\* statement carries false.
C18_FlagsOnlyTrue ==
    \A r \in 1..2 : \A call \in bool_calls(run[r]) :
        /\ call[4] = TRUE
        /\ \E item \in subject_items(run[r], call[2]) : flag_holds(item, call[3])

\* a finished run that wrote the module M: isMutable on the static ST, no
\* boolean statement on the static SI, whose is_mutable is false
C18_Witness ==
    /\ pc = "done"
    /\ \E call \in bool_calls(run[1]) : call[3] = rt.IS_MUTABLE
    /\ \E i \in 1..Len(run[1].declared) :
           /\ run[1].declared[i][1] = "Static"
           /\ \A call \in bool_calls(run[1]) : call[2] # run[1].declared[i][2]

\* named-path references: without id, with the id of S (side table and index),
\* of Debug (side table only), of K (index only, named), of the impl of S (index
\* only, nameless) and with an id that neither holds
PathRefs ==
    {ResolvedPath(str("a::P"), id, None) :
         id \in {None, Some(str("id_S")), Some(str("id_Debug")), Some(str("id_K")),
                 Some(str("id_impl_S")), Some(str("id_missing"))}}

\* the text the priority chain names for a reference
chain_text(path) ==
    IF path.id # None /\ path.id[1] \in DOMAIN crate_data.paths
    THEN join(crate_data.paths[path.id[1]].path, str("::"))
    ELSE IF /\ path.id # None
            /\ path.id[1] \in DOMAIN crate_data.index
            /\ crate_data.index[path.id[1]].name # None
    THEN crate_data.index[path.id[1]].name[1]
    ELSE path.path

\* C19: resolving a named-path reference always yields an identifier, by strict
\* priority: the type identifier of the side table's path joined with "::" when
\* the side table holds the reference's id; else that of the item's own name
\* when the index holds the id and the item has a name; else (no id, id found
\* nowhere, nameless item) that of the raw path string of the reference.
C19_PathPriority ==
    \A r \in 1..2 : \A path \in PathRefs :
        resolve_path_to_iri(run[r], path)
            = type_iri(run[r].iris, run[r].crate_name, run[r].crate_version, chain_text(path))

\* a finished run on a document that holds S, its nameless impl and the
\* constant K: the chain ends at each of its three levels, and the run wrote the
\* resolved target of the impl of S
C19_Witness ==
    /\ pc = "done"
    /\ {str("id_S"), str("id_K"), str("id_impl_S")} \subseteq DOMAIN crate_data.index
    /\ {chain_text(path) : path \in PathRefs}
           = {str("c::S"), str("core::fmt::Debug"), str("K"), str("a::P")}
    /\ \E d \in written_impls(run[1]) :
           values(objects(run[1].emitter.calls, d[2], rt.IMPL_FOR))
               = {resolve_path_to_iri(run[1], crate_data.index[d[3]].inner.for_)}

\* one type reference of each kind of Type
TypeRefs ==
    {ResolvedPath(str("a::P"), None, None),
     u8,
     [tag |-> "Tuple", types |-> <<u8, u8>>],
     [tag |-> "Slice", type_ |-> u8],
     [tag |-> "Array", type_ |-> u8, len |-> str("4")],
     [tag |-> "RawPointer", type_ |-> u8, is_mutable |-> TRUE],
     [tag |-> "BorrowedRef", type_ |-> u8, is_mutable |-> FALSE],
     [name |-> str("T"), tag |-> "Generic"],
     [tag |-> "ImplTrait"], [tag |-> "DynTrait"], [tag |-> "QualifiedPath"],
     [tag |-> "FunctionPointer"], [tag |-> "Infer"], [tag |-> "Unknown"]}

\* the kinds of type reference for which the claim names no identifier
NoIdentifier ==
    {"Generic", "ImplTrait", "DynTrait", "QualifiedPath", "FunctionPointer", "Infer", "Unknown"}

\* the statements about subject have the edge to the identifier of ty, or no
\* edge when ty is of a kind without identifier, and in both cases a statement
\* of each predicate of required
typed(self, subject, edge, ty, required) ==
    LET calls == self.emitter.calls
        about == {i \in 1..Len(calls) : calls[i][1] # "add_prefix" /\ calls[i][2] = subject}
    IN /\ {calls[i][4] : i \in {j \in about : calls[j][3] = edge}}
              = IF ty.tag \in NoIdentifier THEN {} ELSE {resolve_type_to_iri(self, ty)[1]}
       /\ required \subseteq {calls[i][3] : i \in about}

\* C20: type resolution yields no identifier exactly for a Generic, ImplTrait,
\* DynTrait, QualifiedPath, FunctionPointer, Infer or Unknown reference; a
\* declaration whose type does not resolve lacks only its edge (fieldType,
\* parameterType, returnType, relatedTo, errorType), its other statements are
\* written, and the walk goes on: it stops only on the module that lists itself.
C20_UnresolvedTypes ==
    /\ \A r \in 1..2 : \A ty \in TypeRefs :
           (resolve_type_to_iri(run[r], ty) = None) <=> (ty.tag \in NoIdentifier)
    /\ pc = "stack_overflow" => str("id_L") \in DOMAIN crate_data.index
    /\ \A r \in 1..2 : \A i \in 1..Len(run[r].declared) :
           LET d == run[r].declared[i] IN
           CASE d[1] = "Field" ->
                    typed(run[r], d[2], tg.FIELD_TYPE, crate_data.index[d[3]].inner.type_,
                          {standard.RDF_TYPE, tg.NAME, tg.MEMBER_OF, tg.ACCESSIBILITY})
             [] d[1] = "VariantField" ->
                    typed(run[r], d[2], tg.FIELD_TYPE, crate_data.index[d[3]].inner.type_,
                          {standard.RDF_TYPE, tg.NAME})
             [] d[1] \in {"Constant", "Static"} ->
                    \A item \in subject_items(run[r], d[2]) :
                        typed(run[r], d[2], tg.FIELD_TYPE, item.inner.type_,
                              {standard.RDF_TYPE, tg.NAME, tg.MEMBER_OF, tg.ACCESSIBILITY})
             [] d[1] = "TypeAlias" ->
                    \A item \in subject_items(run[r], d[2]) :
                        item.inner.type_ # None =>
                            typed(run[r], d[2], tg.RELATED_TO, item.inner.type_[1],
                                  {standard.RDF_TYPE, tg.NAME, tg.FULL_NAME,
                                   tg.DEFINED_IN_ASSEMBLY, tg.IN_NAMESPACE, tg.ACCESSIBILITY})
             [] d[1] \in {"Function", "Method"} ->
                    LET sig == crate_data.index[d[3]].inner.sig IN
                    /\ ClaimErrorType(run[r], sig) = None =>
                           DOMAIN objects(run[r].emitter.calls, d[2], rt.ERROR_TYPE) = {}
                    /\ sig.output # None =>
                           typed(run[r], d[2], tg.RETURN_TYPE, sig.output[1],
                                 {standard.RDF_TYPE, tg.NAME, tg.MEMBER_OF, tg.ACCESSIBILITY})
                    /\ \A k \in 1..Len(sig.inputs) :
                           sig.inputs[k][1] # str("self") =>
                               typed(run[r], parameter_iri(d[2], k - 1), tg.PARAMETER_TYPE,
                                     sig.inputs[k][2],
                                     {standard.RDF_TYPE, tg.NAME, tg.ORDINAL, tg.PARAMETER_OF})
             [] OTHER -> TRUE

\* a finished run that wrote a field and a method whose types do not resolve,
\* without the fieldType, returnType and parameterType edges and with their
\* names, and a field whose type resolves, with its edge
C20_Witness ==
    /\ pc = "done"
    /\ \E d \in declarations(run[1]) :
           /\ d[1] = "Field"
           /\ crate_data.index[d[3]].inner.type_.tag = "Generic"
           /\ DOMAIN objects(run[1].emitter.calls, d[2], tg.FIELD_TYPE) = {}
           /\ DOMAIN objects(run[1].emitter.calls, d[2], tg.NAME) # {}
    /\ \E d \in declarations(run[1]) :
           /\ d[1] = "Field"
           /\ crate_data.index[d[3]].inner.type_.tag = "BorrowedRef"
           /\ DOMAIN objects(run[1].emitter.calls, d[2], tg.FIELD_TYPE) # {}
    /\ \E d \in declarations(run[1]) :
           /\ d[1] = "Method"
           /\ crate_data.index[d[3]].inner.sig.output = Some([tag |-> "ImplTrait"])
           /\ crate_data.index[d[3]].inner.sig.inputs[1][2].tag = "FunctionPointer"
           /\ DOMAIN objects(run[1].emitter.calls, d[2], tg.RETURN_TYPE) = {}
           /\ DOMAIN objects(run[1].emitter.calls, parameter_iri(d[2], 0), tg.PARAMETER_TYPE) = {}
           /\ DOMAIN objects(run[1].emitter.calls, parameter_iri(d[2], 0), tg.NAME) # {}

\* C21 (as the specification states it): an item the walk reaches that has no
\* declared name (a module, struct, enum, union, trait, type alias, function,
\* constant, static, field or variant) gets no statement: every declaration a
\* run wrote for an item of these kinds is of an item with a name.
C21_NamelessSkipped ==
    \A r \in 1..2 : \A d \in declarations(run[r]) :
        d[1] \notin {"TraitImpl", "InherentImpl"} => crate_data.index[d[3]].name # None

\* the statements of a log that say subject is of some class
type_tags(calls, subject) ==
    {i \in 1..Len(calls) : /\ calls[i][1] = "emit_iri"
                           /\ calls[i][2] = subject
                           /\ calls[i][3] = standard.RDF_TYPE}

\* the objects of the traitBound, superTrait, implTrait and implements edges
referenced_traits(calls) ==
    {calls[i][4] : i \in {j \in 1..Len(calls) :
        /\ calls[j][1] = "emit_iri"
        /\ calls[j][3] \in {rt.TRAIT_BOUND, rt.SUPER_TRAIT, rt.IMPL_TRAIT, tg.IMPLEMENTS}}}

\* C22: every identifier that is the object of a traitBound, superTrait,
\* implTrait or implements edge of a run is the subject of a type-tag statement
\* (of its declaration or of a stub), and no identifier has two stubs.
C22_TraitNodesExist ==
    \A r \in 1..2 :
        LET calls == run[r].emitter.calls IN
        \A t \in referenced_traits(calls) :
            /\ type_tags(calls, t) # {}
            /\ Cardinality({i \in type_tags(calls, t) : calls[i][4] = tg.TYPE}) <= 1

\* a finished run in which a supertrait is a stub and the trait of a bound,
\* walked before the function it bounds, has its declaration
C22_Witness ==
    /\ pc = "done"
    /\ LET calls == run[1].emitter.calls
           edges(p) == {calls[i][4] : i \in {j \in 1..Len(calls) :
                            calls[j][1] = "emit_iri" /\ calls[j][3] = p}}
           stub(t) == \E i \in type_tags(calls, t) : calls[i][4] = tg.TYPE
       IN /\ \E t \in edges(rt.TRAIT_BOUND) : ~stub(t)
          /\ \E t \in edges(rt.SUPER_TRAIT) : stub(t)

\* the class that tags a declaration of each kind of type
kind_tag(tag) ==
    CASE tag = "Struct" -> tg.STRUCT
      [] tag = "Enum" -> tg.ENUM
      [] tag = "Union" -> rt.UNION_
      [] tag = "Trait" -> tg.INTERFACE
      [] tag = "TypeAlias" -> rt.TYPE_ALIAS

\* the items the root lists and the items the modules of the root list, each
\* as <<item id, module path>>
reachable_items(self) ==
    LET listed(id) == IF id \in DOMAIN crate_data.index
                         /\ crate_data.index[id].inner.tag = "Module"
                      THEN crate_data.index[id].inner.items ELSE <<>>
        top == listed(crate_data.root)
        below(id) == LET m == crate_data.index[id]
                         path == self.crate_name \o str("::")
                                 \o (IF m.name # None THEN m.name[1] ELSE str("unnamed"))
                     IN {<<listed(id)[k], path>> : k \in 1..Len(listed(id))}
    IN {<<top[k], self.crate_name>> : k \in 1..Len(top)}
       \cup UNION {below(top[k]) : k \in {j \in 1..Len(top) : top[j] \in DOMAIN crate_data.index}}

\* C23 (as the specification states it): when a run is over, every named struct,
\* enum, union, trait and type alias that the root or a module of the root lists
\* has its kind tag and its name statement in the log, whatever the order of
\* the lists and whether or not a bound or a supertrait named it earlier.
C23_ReachableTypesDeclared ==
    pc = "done" =>
        \A r \in 1..2 : \A e \in reachable_items(run[r]) :
            (/\ e[1] \in DOMAIN crate_data.index
             /\ crate_data.index[e[1]].inner.tag
                    \in {"Struct", "Enum", "Union", "Trait", "TypeAlias"}
             /\ crate_data.index[e[1]].name # None)
            => LET item == crate_data.index[e[1]]
                   iri == type_iri(run[r].iris, run[r].crate_name, run[r].crate_version,
                                   e[2] \o str("::") \o item.name[1])
               IN /\ has_call(run[r], <<"emit_iri", iri, standard.RDF_TYPE,
                                        kind_tag(item.inner.tag)>>)
                  /\ has_call(run[r], <<"emit_literal", iri, tg.NAME, item.name[1]>>)

\* the statements of a log: its calls other than the prefix registrations
statements(calls) == SelectSeq(calls, LAMBDA call : call[1] # "add_prefix")

\* C24 (as the specification states it): every extraction is guarded, so no
\* statement (subject, predicate, object) is in the log of a run twice, also
\* when a module lists a child twice or holds two functions of one name.
C24_NoStatementTwice ==
    \A r \in 1..2 :
        LET q == statements(run[r].emitter.calls)
        IN \A i, j \in 1..Len(q) : q[i] = q[j] => i = j

\* the inputs of the function of a declaration that are not the receiver
declared_parameters(d) ==
    LET inner == crate_data.index[d[3]].inner
    IN IF d[1] \in {"Function", "Method"} /\ inner.tag = "Function"
       THEN SelectSeq(inner.sig.inputs, LAMBDA input : input[1] # str("self"))
       ELSE <<>>

\* C25 (as the specification states it): the Parameter nodes of a written
\* function or method are those of its inputs other than self, and the ordinal
\* and the identifier suffix of each is its zero-based place among them: the
\* n-th of k such inputs is the node .../param/n with name and ordinal n, and
\* there is no node .../param/k.
C25_OrdinalsSkipReceiver ==
    \A r \in 1..2 : \A d \in declarations(run[r]) :
        LET params == declared_parameters(d) IN
        d[1] \in {"Function", "Method"} =>
            /\ \A n \in 1..Len(params) :
                   /\ has_call(run[r], <<"emit_literal", parameter_iri(d[2], n - 1),
                                         tg.NAME, params[n][1]>>)
                   /\ has_call(run[r], <<"emit_int", parameter_iri(d[2], n - 1),
                                         tg.ORDINAL, n - 1>>)
            /\ ~has_call(run[r], <<"emit_iri", parameter_iri(d[2], Len(params)),
                                   standard.RDF_TYPE, tg.PARAMETER>>)

\* C26 (as the specification states it): a written struct, enum, union or trait
\* has an isGeneric true statement exactly if its generics list holds a type
\* parameter.
C26_GenericFlag ==
    \A r \in 1..2 : \A d \in declarations(run[r]) :
        (d[1] \in {"Struct", "Enum", "Union", "Trait"}
         /\ crate_data.index[d[3]].inner.tag = d[1])
        => (has_call(run[r], <<"emit_bool", d[2], tg.IS_GENERIC, TRUE>>)
            <=> has_type_params(crate_data.index[d[3]].inner.generics))

\* the addresses of the last call: subject, predicate, object and datatype
last_addresses ==
    {last.s, last.p} \cup (IF last.op = "emit_iri" THEN {last.v} ELSE {})
                     \cup (IF last.dt # <<>> THEN {last.dt} ELSE {})

\* the prefix names that the line of the last call uses in a compacted name
last_prefixes_used ==
    {best_prefix(tt.prefixes, iri, <<>>)[1][1] :
        iri \in {a \in last_addresses : Head(compact_iri(tt, a)) # 60}}

\* C27 (as the specification states it): in the Turtle output, for any
\* interleaving of add_prefix and emit calls, every prefix used in a compacted
\* name of the line just written has an @prefix line earlier in the output,
\* and every @prefix line comes before the first statement.
C27_PrefixDeclaredBeforeUse ==
    /\ last.op \in EmitOps =>
           \A name \in last_prefixes_used :
               \E i \in 1..(Len(tt.out) - 1) :
                   starts_with(tt.out[i],
                               <<64, 112, 114, 101, 102, 105, 120, 32>> \o name \o <<58, 32, 60>>)
    /\ \A j \in 1..Len(tt.out) :
           IsPrefixLine(tt.out[j]) => \A i \in 1..(j - 1) : IsPrefixLine(tt.out[i])

\* the set of the statements of a log
statement_set(calls) == {statements(calls)[i] : i \in 1..Len(statements(calls))}

\* C28 (as the specification states it): the scan for impls is order-independent:
\* two finished runs on one document with the same options have written the
\* same set of statements, whatever the orders in which their maps yielded the
\* impls.
C28_ImplScanOrderFree ==
    (pc = "done" /\ run[1].options = run[2].options)
    => statement_set(run[1].emitter.calls) = statement_set(run[2].emitter.calls)

\* C29 (as the specification states it): within a run two different declared
\* entities never get one identifier: two entries of the declared log with the
\* same identifier are entries of the same item.
C29_NoIdentifierShared ==
    \A r \in 1..2 : \A d, e \in declarations(run[r]) : d[2] = e[2] => d[3] = e[3]

====
